---- MODULE Spec2Model ----
(***************************************************************************)
(* Verification model of the vortex edge tunnelling worker.                *)
(*                                                                         *)
(* Spec        one WebSocket session of websocketHandler (handlers module, *)
(*             src/unnamed/part_002): the inbound ReadableStream, the      *)
(*             WritableStream sink that sniffs the first chunk, the TCP    *)
(*             path (handleTCPOutBound, connectAndWrite, retry,            *)
(*             remoteSocketToWS) and the DNS path (handleUDPOutbound).     *)
(* SpecStream  one session of handleWebSocketStream of the single-file     *)
(*             worker (src/unnamed/part_004) with its byte-level parsers   *)
(*             parseRequestHeader / parseVlessHeader / parseTrojanHeader / *)
(*             parseShadowsocksHeader.                                     *)
(***************************************************************************)
EXTENDS Integers, Sequences, FiniteSets, Bags, TLC

\* ------------------------------------------------------------------ bounds
\* WebSocket messages the client sends in one session
MaxChunks == 2
\* chunks one remote socket yields before it ends
MaxRemoteChunks == 2
\* addLog calls made on one log buffer
MaxLogCalls == 55
\* lines of the proxy list the job-queue coordinator is started with
MaxProxies == 2
\* startCycle calls made on the job-queue coordinator
MaxStarts == 3

\* ------------------------------------------------------- program constants
WS_READY_STATE_OPEN == 1
WS_READY_STATE_CLOSING == 2
DNS_PORT == 53
\* the size of the log buffer: logging.js, and the single-file worker
MAX_LOG_ENTRIES == 50
MAX_LOG_ENTRIES_004 == 20
\* jobs one scheduled() invocation of index.js takes
BATCH_SIZE == 10
\* proxies one alarm() of part_006 checks
BATCH_SIZE_006 == 10
BATCH_SIZE_001 == 20

\* ------------------------------------------------------------------- state
VARIABLES
    \* ---- websocketHandler session (part_002)
    earlyDataHeader,      \* "none" | "valid" | "invalid": the sec-websocket-protocol field
    addLogDefined,        \* whether the free identifier addLog of connectAndWrite resolves
    readyState,           \* webSocket.readyState: 1 OPEN, 2 CLOSING, 3 CLOSED
    clientClosed,         \* the "close" event of the client has been delivered
    streamState,          \* ReadableStream: "readable" | "closeRequested" | "errored" | "cancelled"
    queue,                \* chunks enqueued and not yet written to the sink (0 = early data)
    readableStreamCancel, \* the flag of makeReadableWebSocketStream
    msgs,                 \* message events delivered so far
    sink,                 \* WritableStream: "idle" | "sniffing" | "relaying" | "dns" | "closed" | "errored"
    pipeError,            \* why readableWebSocketStream.pipeTo rejected ("" while it has not)
    isDNS,
    remoteSocketValue,    \* remoteSocketWrapper.value: 0 = null, 1 = primary, 2 = retry socket
    protocolHeader,       \* the parsed header of the first chunk (NoHeader before that)
    connects,             \* connect() calls made by connectAndWrite
    cw,                   \* connectAndWrite per socket: "none" | "writing" | "ok" | "failed" | "threw" | "connectThrew"
    locked,               \* socket.writable is locked by a writer
    sockState,            \* "none" | "open" | "closed"
    pump,                 \* remoteSocketToWS per socket: "none" | "piping" | "settled" | "done"
    pumpRejected,         \* the catch branch of remoteSocketToWS ran
    hasIncomingData,      \* the local flag of each remoteSocketToWS call
    header,               \* the local header of each remoteSocketToWS call is still set
    recv,                 \* chunks read from each remote socket
    retryCalls,           \* invocations of retry()
    closedHook,           \* retry's tcpSocket.closed handlers: "none" | "attached" | "fired"
    sent,                 \* messages sent to the client: <<[hdr |-> BOOLEAN, from |-> ...]>>
    written,              \* chunks written to each remote socket (the header chunk: its rawClientData)
    relayTo,              \* socket the sink is writing a later chunk to
    cur,                  \* chunk the sink's write() is handling (-1 = none)
    dnsConnects,          \* connect() calls made by handleUDPOutbound
    dnsPc,                \* handleUDPOutbound: "none" | "writing" | "piping"
    dnsHeader,            \* its local protocolHeader is still set
    dnsRecv,              \* chunks read from the current resolver connection
    closeCalls,           \* socket.close() calls made by safeCloseWebSocket
    cancelCloses,         \* times cancel() of the inbound stream went on to close
    sniffed,              \* the chunks write() has handed to protocolSniffer, in order
    dialed,               \* the { hostname, port } connectAndWrite gave connect() for each socket
    rawClientData,        \* the chunk whose bytes behind the header handleTCPOutBound was given
    \* ---- which worker the session runs on: "handlers" (part_002) | "single-file" (part_004)
    worker,
    \* ---- handleWebSocketStream session (part_004)
    pathDestination,      \* destination taken from the URL path (NoDestination = null)
    serverReadyState,     \* server.readyState: 1 OPEN, 2 CLOSING, 3 CLOSED
    closeCode,            \* code the worker closed the WebSocket with (0 = it has not)
    closeReason,          \* and the reason
    connectionEstablished,
    remoteSocket,         \* the variable: "null" | "set"
    remoteSocketWriter,   \* the variable is set
    tcpState,             \* the socket connect() made: "none" | "open" | "closed"
    firstChunk,           \* event.data of the first message
    headerResult,         \* what parseRequestHeader returned for it
    hpc,                  \* the first message's handler: "idle" | "awaitConnect" | "done"
    tcpConnects,          \* connect() calls made by handleTCPOutbound
    finalDestination,     \* where to
    clientGot,            \* what was sent to the client: "data" | "text"
    remoteGot,            \* chunks written to the remote (0 = remainingData)
    streamMsgs,           \* message events delivered so far
    streamClosed,         \* the client's "close" event has been delivered
    streamRecv,           \* chunks read from the remote socket
    \* ---- the header parsers of part_004 called on their own
    headerBuffer,         \* the ArrayBuffer handed to the parsers
    vlessResult,          \* what parseVlessHeader(headerBuffer) returned
    trojanResult,         \* what parseTrojanHeader(headerBuffer) returned
    ssResult,             \* what parseShadowsocksHeader(headerBuffer) returned
    requestResult,        \* what parseRequestHeader(headerBuffer) returned
    parsed,               \* the functions that have returned: subset of Parsers
    \* ---- the log buffer and the health-check coordinators
    logEvents,            \* the in-memory log buffer (an entry: the number of the call that pushed it)
    storage,              \* state.storage of the Durable Object
    kv,                   \* the key-value store the reports go to (PROXY_CACHE, Deno KV)
    calls,                \* the invocations in progress, with their local variables
    trace                 \* what the invocations have done so far

wsVars == <<earlyDataHeader, addLogDefined, readyState, clientClosed, streamState, queue,
            readableStreamCancel, msgs, sink, pipeError, isDNS, remoteSocketValue,
            protocolHeader, connects, cw, locked, sockState, pump, pumpRejected,
            hasIncomingData, header, recv, retryCalls, closedHook, sent, written, relayTo,
            cur, dnsConnects, dnsPc, dnsHeader, dnsRecv, closeCalls, cancelCloses,
            sniffed, dialed, rawClientData>>

streamVars == <<pathDestination, serverReadyState, closeCode, closeReason,
                connectionEstablished, remoteSocket, remoteSocketWriter, tcpState, firstChunk,
                headerResult, hpc, tcpConnects, finalDestination, clientGot, remoteGot,
                streamMsgs, streamClosed, streamRecv>>

parserVars == <<headerBuffer, vlessResult, trojanResult, ssResult, requestResult, parsed>>

coordVars == <<storage, kv, calls, trace>>

vars == <<wsVars, worker, streamVars, parserVars, logEvents, coordVars>>

Sockets == {1, 2}

\* ------------------------------------------------------- pure helpers

\* mutant: close() is called whatever the readyState
ClosesSocketAlways(rs) == TRUE

\* the test of safeCloseWebSocket before it calls socket.close()
ClosesSocket(rs) == rs = WS_READY_STATE_OPEN \/ rs = WS_READY_STATE_CLOSING

\* safeCloseWebSocket: socket.close() is called only in OPEN or CLOSING; the
\* socket is CLOSED once both sides have closed, CLOSING while the peer has not.
safeCloseWebSocket(rs, peerClosed) ==
    IF ClosesSocket(rs)
    THEN (IF peerClosed THEN 3 ELSE WS_READY_STATE_CLOSING)
    ELSE rs

\* mutant: a field that does not decode is skipped without an error
base64ToArrayBufferSilent(field) ==
    CASE field = "none"    -> [earlyData |-> FALSE, error |-> FALSE]
      [] field = "valid"   -> [earlyData |-> TRUE,  error |-> FALSE]
      [] field = "invalid" -> [earlyData |-> FALSE, error |-> FALSE]

\* base64ToArrayBuffer on the three kinds of field value
base64ToArrayBuffer(field) ==
    CASE field = "none"    -> [earlyData |-> FALSE, error |-> FALSE]
      [] field = "valid"   -> [earlyData |-> TRUE,  error |-> FALSE]
      [] field = "invalid" -> [earlyData |-> FALSE, error |-> TRUE]

\* the remote addresses of the headers, as sequences of characters
Hosts == {<<"e", "x", ".", "c", "o">>, <<"1", ".", "1">>}

\* the header descriptors the parsers hand to websocketHandler
ProtocolHeaders ==
    [hasError : BOOLEAN, isUDP : BOOLEAN, addressRemote : Hosts, portRemote : {DNS_PORT, 443},
     version : BOOLEAN]

\* protocolHeader before the first chunk has been parsed
NoHeader ==
    [hasError |-> FALSE, isUDP |-> FALSE, addressRemote |-> <<>>, portRemote |-> 0,
     version |-> FALSE]

\* dialed[s] before connect() has been called for socket s
NoDial == [hostname |-> <<>>, port |-> 0]

\* ------------------------------------------------------------------- Init
\* websocketHandler up to its return: the stream is made (start() decodes the
\* early data), nothing has been read yet
InitHandlers(fields, defined) ==
    /\ earlyDataHeader \in fields
    /\ addLogDefined \in defined
    /\ readyState = WS_READY_STATE_OPEN
    /\ clientClosed = FALSE
    /\ streamState = IF base64ToArrayBuffer(earlyDataHeader).error THEN "errored" ELSE "readable"
    /\ queue = IF base64ToArrayBuffer(earlyDataHeader).earlyData THEN <<0>> ELSE <<>>
    /\ readableStreamCancel = FALSE
    /\ msgs = 0
    /\ sink = "idle"
    /\ pipeError = ""
    /\ isDNS = FALSE
    /\ remoteSocketValue = 0
    /\ protocolHeader = NoHeader
    /\ connects = 0
    /\ cw = [s \in Sockets |-> "none"]
    /\ locked = [s \in Sockets |-> FALSE]
    /\ sockState = [s \in Sockets |-> "none"]
    /\ pump = [s \in Sockets |-> "none"]
    /\ pumpRejected = [s \in Sockets |-> FALSE]
    /\ hasIncomingData = [s \in Sockets |-> FALSE]
    /\ header = [s \in Sockets |-> FALSE]
    /\ recv = [s \in Sockets |-> 0]
    /\ retryCalls = 0
    /\ closedHook = "none"
    /\ sent = <<>>
    /\ written = [s \in Sockets |-> <<>>]
    /\ relayTo = 0
    /\ cur = -1
    /\ dnsConnects = 0
    /\ dnsPc = "none"
    /\ dnsHeader = FALSE
    /\ dnsRecv = 0
    /\ closeCalls = 0
    /\ cancelCloses = 0
    /\ sniffed = <<>>
    /\ dialed = [s \in Sockets |-> NoDial]
    /\ rawClientData = -1

\* groups of variables, for UNCHANGED
inboundVars == <<clientClosed, streamState, queue, readableStreamCancel, msgs>>
tcpVars == <<connects, cw, locked, sockState, pump, pumpRejected, hasIncomingData, header,
             recv, retryCalls, closedHook, written>>
dnsVars == <<dnsConnects, dnsPc, dnsHeader, dnsRecv>>
constVars == <<earlyDataHeader, addLogDefined, worker, streamVars, parserVars, logEvents,
               coordVars>>
dialVars == <<dialed, rawClientData>>
restVars == <<constVars, sniffed, dialVars>>
closeVars == <<closeCalls, cancelCloses>>
envVars == <<restVars, closeVars>>

\* the count of socket.close() calls after one more safeCloseWebSocket(webSocket)
CloseCalled == IF ClosesSocket(readyState) THEN closeCalls + 1 ELSE closeCalls

\* ------------------------------------------- inbound WebSocket events

\* "message" listener: enqueue unless cancelled (enqueue on a closed or errored
\* stream throws inside the listener and changes nothing)
ClientMessage ==
    /\ worker = "handlers"
    /\ ~clientClosed
    /\ msgs < MaxChunks
    /\ msgs' = msgs + 1
    /\ queue' = IF ~readableStreamCancel /\ streamState = "readable"
                THEN Append(queue, msgs + 1) ELSE queue
    /\ UNCHANGED <<clientClosed, streamState, readableStreamCancel, readyState, sink,
                   pipeError, isDNS, remoteSocketValue, protocolHeader, sent, relayTo, cur>>
    /\ UNCHANGED <<tcpVars, dnsVars, envVars>>

\* "close" listener: safeCloseWebSocket, then controller.close() unless cancelled
ClientClose ==
    /\ worker = "handlers"
    /\ ~clientClosed
    /\ clientClosed' = TRUE
    /\ readyState' = safeCloseWebSocket(readyState, TRUE)
    /\ closeCalls' = CloseCalled
    /\ UNCHANGED cancelCloses
    /\ streamState' = IF ~readableStreamCancel /\ streamState = "readable"
                      THEN "closeRequested" ELSE streamState
    /\ UNCHANGED <<queue, readableStreamCancel, msgs, sink, pipeError, isDNS,
                   remoteSocketValue, protocolHeader, sent, relayTo, cur>>
    /\ UNCHANGED <<tcpVars, dnsVars, restVars>>

\* "error" listener: controller.error(err) drops what is queued
ClientError ==
    /\ worker = "handlers"
    /\ ~clientClosed
    /\ streamState = "readable"
    /\ streamState' = "errored"
    /\ queue' = <<>>
    /\ UNCHANGED <<clientClosed, readableStreamCancel, msgs, readyState, sink, pipeError,
                   isDNS, remoteSocketValue, protocolHeader, sent, relayTo, cur>>
    /\ UNCHANGED <<tcpVars, dnsVars, envVars>>

\* ------------------------------------- readableWebSocketStream.pipeTo(sink)

\* A rejected write() errors the sink; pipeTo then cancels the source, whose
\* cancel() runs only while the stream is not yet closed or errored.  q is the
\* queue left at that moment.
SinkFails(reason, q) ==
    /\ sink' = "errored"
    /\ pipeError' = reason
    /\ cur' = -1
    /\ IF streamState = "readable" \/ (streamState = "closeRequested" /\ q # <<>>)
       THEN /\ streamState' = "cancelled"
            /\ queue' = <<>>
            /\ IF readableStreamCancel
               THEN UNCHANGED <<readableStreamCancel, readyState, closeVars>>
               ELSE /\ readableStreamCancel' = TRUE
                    /\ readyState' = safeCloseWebSocket(readyState, clientClosed)
                    /\ closeCalls' = CloseCalled
                    /\ cancelCloses' = cancelCloses + 1
       ELSE /\ queue' = q
            /\ UNCHANGED <<readableStreamCancel, readyState, streamState, closeVars>>

\* the source has a chunk and the sink is free
CanWrite ==
    /\ sink = "idle"
    /\ queue # <<>>
    /\ streamState \in {"readable", "closeRequested"}

\* write(): first chunk of a session, await protocolSniffer(chunk)
WriteSniff ==
    /\ worker = "handlers"
    /\ CanWrite
    /\ ~isDNS /\ remoteSocketValue = 0
    /\ sink' = "sniffing"
    /\ cur' = Head(queue)
    /\ queue' = Tail(queue)
    /\ sniffed' = Append(sniffed, Head(queue))
    /\ UNCHANGED <<clientClosed, streamState, readableStreamCancel, msgs, readyState,
                   pipeError, isDNS, remoteSocketValue, protocolHeader, sent, relayTo>>
    /\ UNCHANGED <<tcpVars, dnsVars, constVars, closeVars, dialVars>>

\* sink close(): the source closed and everything queued has been written
SinkClose ==
    /\ worker = "handlers"
    /\ sink = "idle"
    /\ queue = <<>>
    /\ streamState = "closeRequested"
    /\ sink' = "closed"
    /\ UNCHANGED <<inboundVars, readyState, pipeError, isDNS, remoteSocketValue,
                   protocolHeader, sent, relayTo, cur>>
    /\ UNCHANGED <<tcpVars, dnsVars, envVars>>

\* the source errored: the sink is aborted and pipeTo rejects into .catch
SinkAbort ==
    /\ worker = "handlers"
    /\ sink = "idle"
    /\ streamState = "errored"
    /\ sink' = "errored"
    /\ pipeError' = "stream error"
    /\ UNCHANGED <<inboundVars, readyState, isDNS, remoteSocketValue,
                   protocolHeader, sent, relayTo, cur>>
    /\ UNCHANGED <<tcpVars, dnsVars, envVars>>

\* ------------------------------------------------ write(): the first chunk

\* protocolSniffer names no protocol: throw new Error("Unknown Protocol!")
SniffUnknown ==
    /\ worker = "handlers"
    /\ sink = "sniffing"
    /\ SinkFails("Unknown Protocol!", queue)
    /\ UNCHANGED <<clientClosed, msgs, isDNS, remoteSocketValue, protocolHeader, sent, relayTo>>
    /\ UNCHANGED <<tcpVars, dnsVars, restVars>>

\* mutant: the hasError test is missing
HeaderRejectedNever(h) == FALSE

\* if (protocolHeader.hasError)
HeaderRejected(h) == h.hasError

\* protocolHeader.hasError: throw new Error(protocolHeader.message)
ParseError ==
    /\ worker = "handlers"
    /\ sink = "sniffing"
    /\ \E h \in ProtocolHeaders : HeaderRejected(h) /\ protocolHeader' = h
    /\ SinkFails("parse error", queue)
    /\ UNCHANGED <<clientClosed, msgs, isDNS, remoteSocketValue, sent, relayTo>>
    /\ UNCHANGED <<tcpVars, dnsVars, restVars>>

\* mutant: every UDP header is taken for a DNS request
EntersDNSAnyPort(h) == TRUE

\* the test of a UDP header: protocolHeader.portRemote === 53
EntersDNS(h) == h.portRemote = DNS_PORT

\* isUDP and portRemote is not 53: throw new Error("UDP only support for DNS port 53")
UdpUnsupported ==
    /\ worker = "handlers"
    /\ sink = "sniffing"
    /\ \E h \in ProtocolHeaders :
         /\ ~HeaderRejected(h) /\ h.isUDP /\ ~EntersDNS(h)
         /\ protocolHeader' = h
    /\ SinkFails("UDP only support for DNS port 53", queue)
    /\ UNCHANGED <<clientClosed, msgs, isDNS, remoteSocketValue, sent, relayTo>>
    /\ UNCHANGED <<tcpVars, dnsVars, restVars>>

\* handleUDPOutbound up to its first await: connect() to the resolver and the
\* write of the chunk; hdr is the protocolHeader argument
UDPOutboundStart(hdr) ==
    /\ dnsConnects' = dnsConnects + 1
    /\ dnsPc' = "writing"
    /\ dnsHeader' = hdr
    /\ dnsRecv' = 0
    /\ sink' = "dns"

\* isUDP and portRemote === 53: isDNS = true, handleUDPOutbound(..., protocolHeader.version)
EnterDNS ==
    /\ worker = "handlers"
    /\ sink = "sniffing"
    /\ \E h \in ProtocolHeaders :
         /\ ~HeaderRejected(h) /\ h.isUDP /\ EntersDNS(h)
         /\ protocolHeader' = h
         /\ UDPOutboundStart(h.version)
    /\ isDNS' = TRUE
    /\ UNCHANGED <<inboundVars, readyState, pipeError, remoteSocketValue, sent, relayTo, cur>>
    /\ UNCHANGED <<tcpVars, envVars>>

\* the configured proxy address (module level, never assigned), as characters
proxyIP == <<>>

\* the characters proxyIP.split(/[:=-]/) splits at
Separators == {":", "=", "-"}

\* str.split(/[:=-]/): the pieces between the separators (one empty piece for "")
RECURSIVE split(_)
split(str) ==
    IF \A i \in 1..Len(str) : str[i] \notin Separators
    THEN <<str>>
    ELSE LET i == CHOOSE k \in 1..Len(str) :
                     /\ str[k] \in Separators
                     /\ \A j \in 1..(k - 1) : str[j] \notin Separators
         IN  <<SubSeq(str, 1, i - 1)>> \o split(SubSeq(str, i + 1, Len(str)))

\* pieces[k] || default: a piece that is missing or empty gives the default
OrDefault(pieces, k, default) ==
    IF Len(pieces) >= k /\ pieces[k] # <<>> THEN pieces[k] ELSE default

\* retry's first argument: proxyIP.split(/[:=-]/)[0] || addressRemote
fallbackAddress(addressRemote) == OrDefault(split(proxyIP), 1, addressRemote)

\* mutant: the fallback port is a fixed one and not the header's
fallbackPortFixed(portRemote) == 443

\* retry's second argument: proxyIP.split(/[:=-]/)[1] || portRemote
fallbackPort(portRemote) == OrDefault(split(proxyIP), 2, portRemote)

\* connectAndWrite up to its first await: connect(), remoteSocket.value = tcpSocket,
\* addLog(message) (a ReferenceError where addLog is not defined), getWriter(),
\* writer.write(rawClientData)
ConnectAndWrite(s, address, port) ==
    /\ connects' = connects + 1
    /\ dialed' = [dialed EXCEPT ![s] = [hostname |-> address, port |-> port]]
    /\ remoteSocketValue' = s
    /\ sockState' = [sockState EXCEPT ![s] = "open"]
    /\ IF addLogDefined
       THEN /\ locked' = [locked EXCEPT ![s] = TRUE]
            /\ cw' = [cw EXCEPT ![s] = "writing"]
       ELSE /\ cw' = [cw EXCEPT ![s] = "threw"]
            /\ UNCHANGED locked

\* a TCP header: handleTCPOutBound is called and not awaited, write() returns
StartTCP ==
    /\ worker = "handlers"
    /\ sink = "sniffing"
    /\ \E h \in ProtocolHeaders :
         /\ ~HeaderRejected(h) /\ ~h.isUDP
         /\ protocolHeader' = h
         /\ ConnectAndWrite(1, h.addressRemote, h.portRemote)
    /\ rawClientData' = cur
    /\ sink' = "idle"
    /\ cur' = -1
    /\ UNCHANGED <<inboundVars, readyState, pipeError, isDNS, sent, relayTo>>
    /\ UNCHANGED <<pump, pumpRejected, hasIncomingData, header, recv, retryCalls, closedHook,
                   written>>
    /\ UNCHANGED <<dnsVars, constVars, sniffed, closeVars>>

\* a TCP header for which connect() itself throws (an address the runtime
\* refuses; the single-file worker's handleTCPOutbound wraps the same call in
\* try/catch): connectAndWrite rejects before remoteSocket.value is assigned,
\* handleTCPOutBound rejects unheard, write() returns
StartTCPThrows ==
    /\ worker = "handlers"
    /\ sink = "sniffing"
    /\ \E h \in ProtocolHeaders :
         /\ ~HeaderRejected(h) /\ ~h.isUDP
         /\ protocolHeader' = h
    /\ rawClientData' = cur
    /\ sink' = "idle"
    /\ cur' = -1
    /\ UNCHANGED <<inboundVars, readyState, pipeError, isDNS, remoteSocketValue, sent, relayTo>>
    /\ UNCHANGED <<tcpVars, dnsVars, constVars, sniffed, closeVars, dialed>>

\* ----------------------------------------------------- the TCP path

\* mutant: retry hands itself on to the retry socket's remoteSocketToWS
retryArgAlways(s) == TRUE

\* the retry argument remoteSocketToWS gets for socket s: retry for the primary
\* socket (line 214), null for the retry socket (line 210)
retryArg(s) == s = 1

\* remoteSocketToWS up to its await: header = protocolHeader, hasIncomingData = false
StartPump(s) ==
    /\ pump' = [pump EXCEPT ![s] = "piping"]
    /\ hasIncomingData' = [hasIncomingData EXCEPT ![s] = FALSE]
    /\ header' = [header EXCEPT ![s] = protocolHeader.version]
    /\ pumpRejected' = [pumpRejected EXCEPT ![s] = FALSE]

\* writer.write(rawClientData) resolves: releaseLock, return tcpSocket; the caller
\* (handleTCPOutBound or retry) goes on to remoteSocketToWS
ConnectWriteOk(s) ==
    /\ worker = "handlers"
    /\ cw[s] = "writing"
    /\ sockState[s] = "open"
    /\ cw' = [cw EXCEPT ![s] = "ok"]
    /\ locked' = [locked EXCEPT ![s] = FALSE]
    /\ written' = [written EXCEPT ![s] = Append(@, rawClientData)]
    /\ closedHook' = IF s = 2 THEN "attached" ELSE closedHook
    /\ StartPump(s)
    /\ UNCHANGED <<inboundVars, readyState, sink, pipeError, isDNS, remoteSocketValue,
                   protocolHeader, sent, relayTo, cur>>
    /\ UNCHANGED <<connects, sockState, recv, retryCalls>>
    /\ UNCHANGED <<dnsVars, envVars>>

\* writer.write(rawClientData) rejects (the connection could not be made):
\* connectAndWrite rejects, and so does its caller; nobody handles it
ConnectWriteFail(s) ==
    /\ worker = "handlers"
    /\ cw[s] = "writing"
    /\ cw' = [cw EXCEPT ![s] = "failed"]
    /\ sockState' = [sockState EXCEPT ![s] = "closed"]
    /\ UNCHANGED <<inboundVars, readyState, sink, pipeError, isDNS, remoteSocketValue,
                   protocolHeader, sent, relayTo, cur>>
    /\ UNCHANGED <<connects, locked, pump, pumpRejected, hasIncomingData, header, recv,
                   retryCalls, closedHook, written>>
    /\ UNCHANGED <<dnsVars, envVars>>

\* mutant: the flag is set only after the readyState test has passed
MarkIncomingIfOpen(s) ==
    IF readyState = WS_READY_STATE_OPEN
    THEN [hasIncomingData EXCEPT ![s] = TRUE] ELSE hasIncomingData

\* mutant: the header is never cleared after a send
KeepHeader(s) == header

\* hasIncomingData = true, the first statement of the sink's write()
MarkIncoming(s) == [hasIncomingData EXCEPT ![s] = TRUE]

\* header = null after the first send
ClearHeader(s) == [header EXCEPT ![s] = FALSE]

\* the sink of remoteSocket.readable.pipeTo gets a chunk: hasIncomingData = true;
\* with the WebSocket not OPEN controller.error() and the send both fail the pipe,
\* whose .catch runs safeCloseWebSocket; otherwise the chunk is sent, behind the
\* header when it is still set
RemoteChunk(s) ==
    /\ worker = "handlers"
    /\ pump[s] = "piping"
    /\ sockState[s] = "open"
    /\ recv[s] < MaxRemoteChunks
    /\ recv' = [recv EXCEPT ![s] = @ + 1]
    /\ hasIncomingData' = MarkIncoming(s)
    /\ IF readyState # WS_READY_STATE_OPEN
       THEN /\ pump' = [pump EXCEPT ![s] = "settled"]
            /\ pumpRejected' = [pumpRejected EXCEPT ![s] = TRUE]
            /\ readyState' = safeCloseWebSocket(readyState, clientClosed)
            /\ closeCalls' = CloseCalled
            /\ UNCHANGED <<sent, header>>
       ELSE /\ sent' = Append(sent, [hdr |-> header[s], from |-> s])
            /\ header' = ClearHeader(s)
            /\ UNCHANGED <<pump, pumpRejected, readyState, closeCalls>>
    /\ UNCHANGED <<inboundVars, sink, pipeError, isDNS, remoteSocketValue,
                   protocolHeader, relayTo, cur>>
    /\ UNCHANGED <<connects, cw, locked, sockState, retryCalls, closedHook, written>>
    /\ UNCHANGED <<dnsVars, restVars, cancelCloses>>

\* the remote closes: the pipe resolves
RemoteClose(s) ==
    /\ worker = "handlers"
    /\ pump[s] = "piping"
    /\ sockState[s] = "open"
    /\ sockState' = [sockState EXCEPT ![s] = "closed"]
    /\ pump' = [pump EXCEPT ![s] = "settled"]
    /\ UNCHANGED <<inboundVars, readyState, sink, pipeError, isDNS, remoteSocketValue,
                   protocolHeader, sent, relayTo, cur>>
    /\ UNCHANGED <<connects, cw, locked, pumpRejected, hasIncomingData, header, recv,
                   retryCalls, closedHook, written>>
    /\ UNCHANGED <<dnsVars, envVars>>

\* the remote read fails: the pipe rejects, .catch runs safeCloseWebSocket
RemoteError(s) ==
    /\ worker = "handlers"
    /\ pump[s] = "piping"
    /\ sockState[s] = "open"
    /\ sockState' = [sockState EXCEPT ![s] = "closed"]
    /\ pump' = [pump EXCEPT ![s] = "settled"]
    /\ pumpRejected' = [pumpRejected EXCEPT ![s] = TRUE]
    /\ readyState' = safeCloseWebSocket(readyState, clientClosed)
    /\ closeCalls' = CloseCalled
    /\ UNCHANGED cancelCloses
    /\ UNCHANGED <<inboundVars, sink, pipeError, isDNS, remoteSocketValue,
                   protocolHeader, sent, relayTo, cur>>
    /\ UNCHANGED <<connects, cw, locked, hasIncomingData, header, recv,
                   retryCalls, closedHook, written>>
    /\ UNCHANGED <<dnsVars, restVars>>

\* mutant: the test of hasIncomingData is inverted
ShouldRetryInverted(s) == hasIncomingData[s] = TRUE /\ retryArg(s)

\* mutant: the retry no longer depends on whether data was received
ShouldRetryIgnoringData(s) == retryArg(s)

\* the statement after the await: if (hasIncomingData === false && retry) retry()
ShouldRetry(s) == hasIncomingData[s] = FALSE /\ retryArg(s)

\* remoteSocketToWS resumes after the pipe; retry() runs connectAndWrite on the
\* fallback destination up to its first await
AfterPipe(s) ==
    /\ worker = "handlers"
    /\ pump[s] = "settled"
    /\ IF ShouldRetry(s)
       THEN /\ retryCalls' = retryCalls + 1
            /\ ConnectAndWrite(2, fallbackAddress(dialed[1].hostname),
                               fallbackPort(dialed[1].port))
            /\ pump' = [pump EXCEPT ![s] = "done"]
       ELSE /\ pump' = [pump EXCEPT ![s] = "done"]
            /\ UNCHANGED <<retryCalls, connects, remoteSocketValue, sockState, locked, cw,
                           dialed>>
    /\ UNCHANGED <<inboundVars, readyState, sink, pipeError, isDNS,
                   protocolHeader, sent, relayTo, cur>>
    /\ UNCHANGED <<pumpRejected, hasIncomingData, header, recv, closedHook, written>>
    /\ UNCHANGED <<dnsVars, constVars, sniffed, closeVars, rawClientData>>

\* remoteSocketToWS resumes after the pipe and retry() runs, but connect() to the
\* fallback destination throws: retry() rejects unheard
AfterPipeRetryThrows(s) ==
    /\ worker = "handlers"
    /\ pump[s] = "settled"
    /\ ShouldRetry(s)
    /\ retryCalls' = retryCalls + 1
    /\ cw' = [cw EXCEPT ![2] = "connectThrew"]
    /\ pump' = [pump EXCEPT ![s] = "done"]
    /\ UNCHANGED <<inboundVars, readyState, sink, pipeError, isDNS, remoteSocketValue,
                   protocolHeader, sent, relayTo, cur>>
    /\ UNCHANGED <<connects, sockState, locked, pumpRejected, hasIncomingData, header, recv,
                   closedHook, written>>
    /\ UNCHANGED <<dnsVars, envVars>>

\* retry's tcpSocket.closed settles: .finally(() => safeCloseWebSocket(webSocket))
RetryClosed ==
    /\ worker = "handlers"
    /\ closedHook = "attached"
    /\ sockState[2] = "closed"
    /\ closedHook' = "fired"
    /\ readyState' = safeCloseWebSocket(readyState, clientClosed)
    /\ closeCalls' = CloseCalled
    /\ UNCHANGED cancelCloses
    /\ UNCHANGED <<inboundVars, sink, pipeError, isDNS, remoteSocketValue,
                   protocolHeader, sent, relayTo, cur>>
    /\ UNCHANGED <<connects, cw, locked, sockState, pump, pumpRejected, hasIncomingData,
                   header, recv, retryCalls, written>>
    /\ UNCHANGED <<dnsVars, restVars>>

\* ------------------------------------------- write(): the later chunks

\* remoteSocketWrapper.value is set: getWriter(), await writer.write(chunk)
WriteRelay ==
    /\ worker = "handlers"
    /\ CanWrite
    /\ ~isDNS /\ remoteSocketValue # 0
    /\ ~locked[remoteSocketValue]
    /\ locked' = [locked EXCEPT ![remoteSocketValue] = TRUE]
    /\ sink' = "relaying"
    /\ relayTo' = remoteSocketValue
    /\ cur' = Head(queue)
    /\ queue' = Tail(queue)
    /\ UNCHANGED <<clientClosed, streamState, readableStreamCancel, msgs, readyState,
                   pipeError, isDNS, remoteSocketValue, protocolHeader, sent>>
    /\ UNCHANGED <<connects, cw, sockState, pump, pumpRejected, hasIncomingData, header,
                   recv, retryCalls, closedHook, written>>
    /\ UNCHANGED <<dnsVars, envVars>>

\* getWriter() on a writable another writer still holds throws a TypeError
WriteRelayLocked ==
    /\ worker = "handlers"
    /\ CanWrite
    /\ ~isDNS /\ remoteSocketValue # 0
    /\ locked[remoteSocketValue]
    /\ SinkFails("writable is locked", Tail(queue))
    /\ UNCHANGED <<clientClosed, msgs, isDNS, remoteSocketValue, protocolHeader, sent, relayTo>>
    /\ UNCHANGED <<tcpVars, dnsVars, restVars>>

\* writer.write(chunk) resolves: releaseLock
RelayOk ==
    /\ worker = "handlers"
    /\ sink = "relaying"
    /\ sockState[relayTo] = "open"
    /\ written' = [written EXCEPT ![relayTo] = Append(@, cur)]
    /\ locked' = [locked EXCEPT ![relayTo] = FALSE]
    /\ sink' = "idle"
    /\ relayTo' = 0
    /\ cur' = -1
    /\ UNCHANGED <<inboundVars, readyState, pipeError, isDNS, remoteSocketValue,
                   protocolHeader, sent>>
    /\ UNCHANGED <<connects, cw, sockState, pump, pumpRejected, hasIncomingData, header,
                   recv, retryCalls, closedHook>>
    /\ UNCHANGED <<dnsVars, envVars>>

\* writer.write(chunk) rejects: the remote is gone (a socket nobody reads from
\* shows it only here); the lock is never released
RelayFail ==
    /\ worker = "handlers"
    /\ sink = "relaying"
    /\ sockState[relayTo] = "closed" \/ pump[relayTo] = "none"
    /\ sockState' = [sockState EXCEPT ![relayTo] = "closed"]
    /\ SinkFails("remote write failed", queue)
    /\ relayTo' = 0
    /\ UNCHANGED <<clientClosed, msgs, isDNS, remoteSocketValue, protocolHeader, sent>>
    /\ UNCHANGED <<connects, cw, locked, pump, pumpRejected, hasIncomingData, header,
                   recv, retryCalls, closedHook, written>>
    /\ UNCHANGED <<dnsVars, restVars>>

\* ----------------------------------------------------- the DNS path

\* isDNS is set: handleUDPOutbound(DNS_SERVER_ADDRESS, DNS_SERVER_PORT, chunk, webSocket, null, log)
WriteDNS ==
    /\ worker = "handlers"
    /\ CanWrite
    /\ isDNS
    /\ UDPOutboundStart(FALSE)
    /\ cur' = Head(queue)
    /\ queue' = Tail(queue)
    /\ UNCHANGED <<clientClosed, streamState, readableStreamCancel, msgs, readyState,
                   pipeError, isDNS, remoteSocketValue, protocolHeader, sent, relayTo>>
    /\ UNCHANGED <<tcpVars, envVars>>

\* writer.write(udpChunk) resolves: releaseLock, pipe the resolver's readable
DnsWriteOk ==
    /\ worker = "handlers"
    /\ dnsPc = "writing"
    /\ dnsPc' = "piping"
    /\ UNCHANGED <<inboundVars, readyState, sink, pipeError, isDNS, remoteSocketValue,
                   protocolHeader, sent, relayTo, cur>>
    /\ UNCHANGED <<dnsConnects, dnsHeader, dnsRecv>>
    /\ UNCHANGED <<tcpVars, envVars>>

\* writer.write(udpChunk) rejects: caught and logged, handleUDPOutbound returns
DnsWriteFail ==
    /\ worker = "handlers"
    /\ dnsPc = "writing"
    /\ dnsPc' = "none"
    /\ sink' = "idle"
    /\ cur' = -1
    /\ UNCHANGED <<inboundVars, readyState, pipeError, isDNS, remoteSocketValue,
                   protocolHeader, sent, relayTo>>
    /\ UNCHANGED <<dnsConnects, dnsHeader, dnsRecv>>
    /\ UNCHANGED <<tcpVars, envVars>>

\* a chunk from the resolver: sent only while the WebSocket is OPEN, behind
\* protocolHeader when that is still set
DnsChunk ==
    /\ worker = "handlers"
    /\ dnsPc = "piping"
    /\ dnsRecv < MaxRemoteChunks
    /\ dnsRecv' = dnsRecv + 1
    /\ IF readyState = WS_READY_STATE_OPEN
       THEN /\ sent' = Append(sent, [hdr |-> dnsHeader, from |-> 0])
            /\ dnsHeader' = FALSE
       ELSE UNCHANGED <<sent, dnsHeader>>
    /\ UNCHANGED <<inboundVars, readyState, sink, pipeError, isDNS, remoteSocketValue,
                   protocolHeader, relayTo, cur>>
    /\ UNCHANGED <<dnsConnects, dnsPc>>
    /\ UNCHANGED <<tcpVars, envVars>>

\* the resolver connection closes or fails: either way handleUDPOutbound returns
DnsEnd ==
    /\ worker = "handlers"
    /\ dnsPc = "piping"
    /\ dnsPc' = "none"
    /\ sink' = "idle"
    /\ cur' = -1
    /\ UNCHANGED <<inboundVars, readyState, pipeError, isDNS, remoteSocketValue,
                   protocolHeader, sent, relayTo>>
    /\ UNCHANGED <<dnsConnects, dnsHeader, dnsRecv>>
    /\ UNCHANGED <<tcpVars, envVars>>

\* ====================================================================
\* The single-file worker (part_004): header parsers
\* ====================================================================
\* A buffer is a sequence of bytes; offsets are 0-based as in the source.

Min(a, b) == IF a < b THEN a ELSE b

\* DataView.getUint8 / getUint16 throw a RangeError unless the bytes read lie
\* inside the buffer; every parser catches it and returns its "parsing failed"
InBuf(buffer, offset, n) == offset + n <= Len(buffer)
getUint8(buffer, offset) == buffer[offset + 1]
\* mutant: the two bytes are read little-endian
getUint16LittleEndian(buffer, offset) == buffer[offset + 1] + buffer[offset + 2] * 256

getUint16(buffer, offset) == buffer[offset + 1] * 256 + buffer[offset + 2]

\* ArrayBuffer.slice(begin, end): both ends are clamped to the buffer, no error
slice(buffer, begin, end) ==
    SubSeq(buffer, Min(begin, Len(buffer)) + 1, Min(end, Len(buffer)))

\* Number.prototype.toString(radix) / String(n), as character codes
Digit(d) == IF d < 10 THEN 48 + d ELSE 87 + d
RECURSIVE toString(_, _)
toString(n, radix) ==
    IF n < radix THEN <<Digit(n)>>
    ELSE toString(n \div radix, radix) \o <<Digit(n % radix)>>

\* Array.prototype.join(sep) over numbers already turned into strings
RECURSIVE join(_, _)
join(strs, sep) ==
    IF strs = <<>> THEN <<>>
    ELSE IF Len(strs) = 1 THEN strs[1]
    ELSE strs[1] \o <<sep>> \o join(Tail(strs), sep)

\* new TextDecoder().decode(bytes): ASCII bytes are their own characters, a
\* byte that cannot start a UTF-8 sequence becomes U+FFFD
TextDecode(bytes) == [i \in 1..Len(bytes) |-> IF bytes[i] < 128 THEN bytes[i] ELSE 65533]

\* a parser's failure: { error: msg }
NoDestination == [address |-> <<>>, port |-> -1]
Failure(msg) == [error |-> msg, destination |-> NoDestination, remainingData |-> <<>>]
Success(address, port, rest) ==
    [error |-> "", destination |-> [address |-> address, port |-> port], remainingData |-> rest]

\* the switch on addressType shared, in three copies, by the parsers: kind is
\* the case taken; the result gives the address and the offset behind it, or
\* thrown when a DataView read left the buffer
decodeAddress(buffer, offset, kind) ==
    CASE kind = "ipv4" ->
           [thrown |-> FALSE,
            address |-> join([i \in 1..Len(slice(buffer, offset, offset + 4)) |->
                                toString(slice(buffer, offset, offset + 4)[i], 10)], 46),
            offset |-> offset + 4]
      [] kind = "domain" ->
           IF ~InBuf(buffer, offset, 1)
           THEN [thrown |-> TRUE, address |-> <<>>, offset |-> offset]
           ELSE [thrown |-> FALSE,
                 address |-> TextDecode(slice(buffer, offset + 1,
                                              offset + 1 + getUint8(buffer, offset))),
                 offset |-> offset + 1 + getUint8(buffer, offset)]
      [] kind = "ipv6" ->
           IF ~InBuf(buffer, offset, 16)
           THEN [thrown |-> TRUE, address |-> <<>>, offset |-> offset]
           ELSE [thrown |-> FALSE,
                 address |-> join([i \in 1..8 |->
                                toString(getUint16(buffer, offset + (i - 1) * 2), 16)], 58),
                 offset |-> offset + 16]

\* VLESS numbers its address types 1 = IPv4, 2 = domain, 3 = IPv6
VlessKind(addressType) ==
    CASE addressType = 1 -> "ipv4"
      [] addressType = 2 -> "domain"
      [] addressType = 3 -> "ipv6"
      [] OTHER -> "invalid"

\* mutant: Trojan and Shadowsocks use the numbering of VLESS
SocksKindOfVless(addressType) == VlessKind(addressType)

\* Trojan and Shadowsocks number them 1 = IPv4, 3 = domain, 4 = IPv6
SocksKind(addressType) ==
    CASE addressType = 1 -> "ipv4"
      [] addressType = 3 -> "domain"
      [] addressType = 4 -> "ipv6"
      [] OTHER -> "invalid"

parseVlessHeader(buffer) ==
    IF ~InBuf(buffer, 17, 1) THEN Failure("VLESS parsing failed")
    ELSE LET addOnLength == getUint8(buffer, 17)
             cmdAt == 18 + addOnLength
         IN
         IF ~InBuf(buffer, cmdAt, 1) THEN Failure("VLESS parsing failed")
         ELSE IF getUint8(buffer, cmdAt) # 1 THEN Failure("Only TCP connections are supported.")
         ELSE IF ~InBuf(buffer, cmdAt + 1, 2) THEN Failure("VLESS parsing failed")
         ELSE IF ~InBuf(buffer, cmdAt + 3, 1) THEN Failure("VLESS parsing failed")
         ELSE LET port == getUint16(buffer, cmdAt + 1)
                  kind == VlessKind(getUint8(buffer, cmdAt + 3))
              IN
              IF kind = "invalid" THEN Failure("Invalid VLESS address type")
              ELSE LET a == decodeAddress(buffer, cmdAt + 4, kind) IN
                   IF a.thrown THEN Failure("VLESS parsing failed")
                   ELSE Success(a.address, port, slice(buffer, a.offset, Len(buffer)))

\* mutant: the two bytes behind the port are returned with the payload
parseTrojanHeaderKeepsCRLF(buffer) ==
    IF TextDecode(slice(buffer, 56, 58)) # <<13, 10>>
    THEN Failure("Invalid Trojan header (CRLF not found).")
    ELSE IF ~InBuf(buffer, 58, 1) THEN Failure("Trojan parsing failed")
    ELSE IF getUint8(buffer, 58) # 1 THEN Failure("Only TCP connections are supported.")
    ELSE IF ~InBuf(buffer, 59, 1) THEN Failure("Trojan parsing failed")
    ELSE LET kind == SocksKind(getUint8(buffer, 59)) IN
         IF kind = "invalid" THEN Failure("Invalid Trojan address type")
         ELSE LET a == decodeAddress(buffer, 60, kind) IN
              IF a.thrown THEN Failure("Trojan parsing failed")
              ELSE IF ~InBuf(buffer, a.offset, 2) THEN Failure("Trojan parsing failed")
              ELSE Success(a.address, getUint16(buffer, a.offset),
                           slice(buffer, a.offset + 2, Len(buffer)))

\* mutant: the separator behind the secret is not compared with CR LF
parseTrojanHeaderUnchecked(buffer) ==
    IF ~InBuf(buffer, 58, 1) THEN Failure("Trojan parsing failed")
    ELSE IF getUint8(buffer, 58) # 1 THEN Failure("Only TCP connections are supported.")
    ELSE IF ~InBuf(buffer, 59, 1) THEN Failure("Trojan parsing failed")
    ELSE LET kind == SocksKind(getUint8(buffer, 59)) IN
         IF kind = "invalid" THEN Failure("Invalid Trojan address type")
         ELSE LET a == decodeAddress(buffer, 60, kind) IN
              IF a.thrown THEN Failure("Trojan parsing failed")
              ELSE IF ~InBuf(buffer, a.offset, 2) THEN Failure("Trojan parsing failed")
              ELSE Success(a.address, getUint16(buffer, a.offset),
                           slice(buffer, a.offset + 2 + 2, Len(buffer)))

parseTrojanHeader(buffer) ==
    IF TextDecode(slice(buffer, 56, 58)) # <<13, 10>>
    THEN Failure("Invalid Trojan header (CRLF not found).")
    ELSE IF ~InBuf(buffer, 58, 1) THEN Failure("Trojan parsing failed")
    ELSE IF getUint8(buffer, 58) # 1 THEN Failure("Only TCP connections are supported.")
    ELSE IF ~InBuf(buffer, 59, 1) THEN Failure("Trojan parsing failed")
    ELSE LET kind == SocksKind(getUint8(buffer, 59)) IN
         IF kind = "invalid" THEN Failure("Invalid Trojan address type")
         ELSE LET a == decodeAddress(buffer, 60, kind) IN
              IF a.thrown THEN Failure("Trojan parsing failed")
              ELSE IF ~InBuf(buffer, a.offset, 2) THEN Failure("Trojan parsing failed")
              ELSE Success(a.address, getUint16(buffer, a.offset),
                           slice(buffer, a.offset + 2 + 2, Len(buffer)))

\* mutant: two bytes behind the port are skipped, as parseTrojanHeader does
parseShadowsocksHeaderSkipsCRLF(buffer) ==
    IF ~InBuf(buffer, 0, 1) THEN Failure("Shadowsocks parsing failed")
    ELSE LET kind == SocksKind(getUint8(buffer, 0)) IN
         IF kind = "invalid" THEN Failure("Invalid Shadowsocks address type")
         ELSE LET a == decodeAddress(buffer, 1, kind) IN
              IF a.thrown THEN Failure("Shadowsocks parsing failed")
              ELSE IF ~InBuf(buffer, a.offset, 2) THEN Failure("Shadowsocks parsing failed")
              ELSE Success(a.address, getUint16(buffer, a.offset),
                           slice(buffer, a.offset + 2 + 2, Len(buffer)))

parseShadowsocksHeader(buffer) ==
    IF ~InBuf(buffer, 0, 1) THEN Failure("Shadowsocks parsing failed")
    ELSE LET kind == SocksKind(getUint8(buffer, 0)) IN
         IF kind = "invalid" THEN Failure("Invalid Shadowsocks address type")
         ELSE LET a == decodeAddress(buffer, 1, kind) IN
              IF a.thrown THEN Failure("Shadowsocks parsing failed")
              ELSE IF ~InBuf(buffer, a.offset, 2) THEN Failure("Shadowsocks parsing failed")
              ELSE Success(a.address, getUint16(buffer, a.offset),
                           slice(buffer, a.offset + 2, Len(buffer)))

\* { ...result, protocol }
Tagged(result, protocol) ==
    [error |-> result.error, destination |-> result.destination,
     remainingData |-> result.remainingData, protocol |-> protocol]

\* the length tests that admit a chunk to each parser
VlessApplies(chunk) == Len(chunk) > 17
TrojanApplies(chunk) == Len(chunk) > 58
\* mutant: the Shadowsocks check is made without its length test
ShadowsocksAppliesAlways(chunk) == TRUE

ShadowsocksApplies(chunk) == Len(chunk) > 4

\* mutant: the generic Shadowsocks check is tried first
parseRequestHeaderShadowsocksFirst(chunk) ==
    IF ShadowsocksApplies(chunk) /\ parseShadowsocksHeader(chunk).error = ""
    THEN Tagged(parseShadowsocksHeader(chunk), "Shadowsocks")
    ELSE IF VlessApplies(chunk) /\ parseVlessHeader(chunk).error = ""
    THEN Tagged(parseVlessHeader(chunk), "VLESS")
    ELSE IF TrojanApplies(chunk) /\ parseTrojanHeader(chunk).error = ""
    THEN Tagged(parseTrojanHeader(chunk), "Trojan")
    ELSE Tagged(Failure("Could not determine protocol."), "")

parseRequestHeader(chunk) ==
    IF VlessApplies(chunk) /\ parseVlessHeader(chunk).error = ""
    THEN Tagged(parseVlessHeader(chunk), "VLESS")
    ELSE IF TrojanApplies(chunk) /\ parseTrojanHeader(chunk).error = ""
    THEN Tagged(parseTrojanHeader(chunk), "Trojan")
    ELSE IF ShadowsocksApplies(chunk) /\ parseShadowsocksHeader(chunk).error = ""
    THEN Tagged(parseShadowsocksHeader(chunk), "Shadowsocks")
    ELSE Tagged(Failure("Could not determine protocol."), "")

\* ====================================================================
\* The single-file worker (part_004): first chunks
\* ====================================================================
Identity == <<8, 8, 8, 8, 0, 53, 7, 7, 7, 7, 7, 7, 7, 7, 7, 7>>
Secret == [i \in 1..56 |-> 97]
Ping == <<80, 73, 78, 71>>
CRLF == <<13, 10>>
PortBytes == <<1, 187>>
IPv4Bytes == <<1, 2, 3, 4>>
DomainBytes == <<3, 97, 46, 98>>
IPv6Bytes == <<32, 1, 13, 184, 0, 0, 0, 0, 0, 0, 0, 0, 0, 0, 0, 1>>

\* the address bytes a well-formed header carries for a kind of address
AddrBytes(kind) ==
    CASE kind = "domain" -> DomainBytes
      [] kind = "ipv6" -> IPv6Bytes
      [] OTHER -> IPv4Bytes

\* version, identity, add-ons length, add-ons, command, port, address type, address, payload
VlessChunk(version, addOns, command, addressType, payload) ==
    <<version>> \o Identity \o <<Len(addOns)>> \o addOns \o <<command>> \o PortBytes
        \o <<addressType>> \o AddrBytes(VlessKind(addressType)) \o payload

\* secret, CRLF, command, address type, address, port, CRLF, payload
TrojanChunk(crlf, command, addressType, payload) ==
    Secret \o crlf \o <<command, addressType>> \o AddrBytes(SocksKind(addressType))
        \o PortBytes \o CRLF \o payload

\* address type, address, port, payload
ShadowsocksChunk(addressType, payload) ==
    <<addressType>> \o AddrBytes(SocksKind(addressType)) \o PortBytes \o payload

\* a VLESS header whose add-ons hold, at bytes 56..63, what a Trojan header holds there
VlessChunkTrojanAddOns(addressType) ==
    VlessChunk(0, [i \in 1..38 |-> 0] \o CRLF \o <<1, 1>> \o IPv4Bytes \o <<0>>, 1,
               addressType, <<>>)

Prefixes(chunk) == {SubSeq(chunk, 1, k) : k \in 0..Len(chunk)}

\* the first chunks a session is tried on
Chunks ==
    {VlessChunk(v, a, c, t, p) :
        v \in {0, 1}, a \in {<<>>, <<0>>}, c \in {1, 2}, t \in {1, 2, 3, 9}, p \in {<<>>, Ping}}
    \cup UNION {Prefixes(VlessChunk(0, <<>>, 1, t, <<>>)) : t \in {1, 2, 3}}
    \cup {TrojanChunk(e, c, t, p) :
        e \in {CRLF, <<10, 13>>}, c \in {1, 3}, t \in {1, 2, 3, 4}, p \in {<<>>, Ping}}
    \cup UNION {{SubSeq(TrojanChunk(CRLF, 1, t, <<>>), 1, k) : k \in 56..(60 + Len(AddrBytes(SocksKind(t))) + 4)} : t \in {1, 3, 4}}
    \cup {ShadowsocksChunk(t, p) : t \in {0, 1, 3, 4}, p \in {<<>>, Ping}}
    \cup UNION {Prefixes(ShadowsocksChunk(t, <<>>)) : t \in {1, 3, 4}}
    \cup {VlessChunkTrojanAddOns(9), VlessChunkTrojanAddOns(1)}

\* ====================================================================
\* The single-file worker (part_004): handleWebSocketStream
\* ====================================================================
PathDestination == [address |-> <<112>>, port |-> 8080]
NoResult == Tagged(Failure(""), "")

InitStream ==
    /\ pathDestination \in {NoDestination, PathDestination}
    /\ serverReadyState = WS_READY_STATE_OPEN
    /\ closeCode = 0
    /\ closeReason = ""
    /\ connectionEstablished = FALSE
    /\ remoteSocket = "null"
    /\ remoteSocketWriter = FALSE
    /\ tcpState = "none"
    /\ firstChunk = <<>>
    /\ headerResult = NoResult
    /\ hpc = "idle"
    /\ tcpConnects = 0
    /\ finalDestination = NoDestination
    /\ clientGot = <<>>
    /\ remoteGot = <<>>
    /\ streamMsgs = 0
    /\ streamClosed = FALSE
    /\ streamRecv = 0

\* the functions of part_004 that take the first chunk
Parsers == {"parseVlessHeader", "parseTrojanHeader", "parseShadowsocksHeader",
            "parseRequestHeader"}

\* no parser has been called on the buffer yet
InitParsers(buffers) ==
    /\ headerBuffer \in buffers
    /\ vlessResult = NoResult
    /\ trojanResult = NoResult
    /\ ssResult = NoResult
    /\ requestResult = NoResult
    /\ parsed = {}

\* no log buffer is kept
NoLog == logEvents = <<>>

\* no health-check coordinator runs
NoCoordinator ==
    /\ storage = <<>>
    /\ kv = <<>>
    /\ calls = <<>>
    /\ trace = <<>>

\* a session runs on one of the two workers; the other one's state stays as made
Init ==
    /\ NoLog /\ NoCoordinator
    /\ \/ /\ worker = "handlers"
          /\ InitHandlers({"none", "valid", "invalid"}, BOOLEAN)
          /\ InitStream /\ pathDestination = NoDestination
          /\ InitParsers({<<>>})
       \/ /\ worker = "single-file"
          /\ InitStream
          /\ InitHandlers({"none"}, {FALSE})
          /\ InitParsers({<<>>})

handlerVars == <<wsVars, worker, parserVars, logEvents, coordVars>>

\* server.close(code, reason): CLOSING until the client's close arrives
serverClose(rs, peerClosed) ==
    IF rs = WS_READY_STATE_OPEN THEN (IF peerClosed THEN 3 ELSE WS_READY_STATE_CLOSING) ELSE rs

\* first message, parseRequestHeader returns an error: server.close(1002, error)
FirstMessageError ==
    /\ worker = "single-file"
    /\ ~connectionEstablished /\ ~streamClosed
    /\ \E chunk \in Chunks :
         /\ parseRequestHeader(chunk).error # ""
         /\ firstChunk' = chunk
         /\ headerResult' = parseRequestHeader(chunk)
         /\ closeReason' = parseRequestHeader(chunk).error
    /\ connectionEstablished' = TRUE
    /\ streamMsgs' = streamMsgs + 1
    /\ closeCode' = 1002
    /\ serverReadyState' = serverClose(serverReadyState, streamClosed)
    /\ hpc' = "done"
    /\ UNCHANGED <<pathDestination, remoteSocket, remoteSocketWriter, tcpState, tcpConnects,
                   finalDestination, clientGot, remoteGot, streamClosed, streamRecv>>
    /\ UNCHANGED handlerVars

\* mutant: the destination of the header is preferred to the one of the path
FinalDestinationHeaderFirst(result) ==
    IF result.destination # NoDestination THEN result.destination ELSE pathDestination

\* the destination the first message's handler connects to
FinalDestination(result) ==
    IF pathDestination # NoDestination THEN pathDestination ELSE result.destination

\* first message, header parsed: handleTCPOutbound connects and pipes the remote
\* readable to the client; the handler awaits its result
FirstMessageConnect ==
    /\ worker = "single-file"
    /\ ~connectionEstablished /\ ~streamClosed
    /\ \E chunk \in Chunks :
         /\ parseRequestHeader(chunk).error = ""
         /\ firstChunk' = chunk
         /\ headerResult' = parseRequestHeader(chunk)
         /\ finalDestination' = FinalDestination(parseRequestHeader(chunk))
    /\ connectionEstablished' = TRUE
    /\ streamMsgs' = streamMsgs + 1
    /\ tcpConnects' = tcpConnects + 1
    /\ tcpState' = "open"
    /\ hpc' = "awaitConnect"
    /\ UNCHANGED <<pathDestination, serverReadyState, closeCode, closeReason, remoteSocket,
                   remoteSocketWriter, clientGot, remoteGot, streamClosed, streamRecv>>
    /\ UNCHANGED handlerVars

\* first message, header parsed, connect() throws: the catch of handleTCPOutbound
\* sends the error text while the socket is OPEN and closes it with 1011
FirstMessageConnectThrows ==
    /\ worker = "single-file"
    /\ ~connectionEstablished /\ ~streamClosed
    /\ \E chunk \in Chunks :
         /\ parseRequestHeader(chunk).error = ""
         /\ firstChunk' = chunk
         /\ headerResult' = parseRequestHeader(chunk)
         /\ finalDestination' = FinalDestination(parseRequestHeader(chunk))
    /\ connectionEstablished' = TRUE
    /\ streamMsgs' = streamMsgs + 1
    /\ tcpConnects' = tcpConnects + 1
    /\ clientGot' = IF serverReadyState = WS_READY_STATE_OPEN
                    THEN Append(clientGot, "text") ELSE clientGot
    /\ closeCode' = 1011
    /\ closeReason' = "Connection failed."
    /\ serverReadyState' = serverClose(serverReadyState, streamClosed)
    /\ hpc' = "done"
    /\ UNCHANGED <<pathDestination, remoteSocket, remoteSocketWriter, tcpState, remoteGot,
                   streamClosed, streamRecv>>
    /\ UNCHANGED handlerVars

\* the handler resumes: remoteSocket and remoteSocketWriter are set and the
\* bytes behind the header, if any, are written
Connected ==
    /\ worker = "single-file"
    /\ hpc = "awaitConnect"
    /\ hpc' = "done"
    /\ remoteSocket' = "set"
    /\ remoteSocketWriter' = TRUE
    /\ remoteGot' = IF Len(headerResult.remainingData) > 0 /\ tcpState = "open"
                    THEN Append(remoteGot, 0) ELSE remoteGot
    /\ UNCHANGED <<pathDestination, serverReadyState, closeCode, closeReason,
                   connectionEstablished, tcpState, firstChunk, headerResult, tcpConnects,
                   finalDestination, clientGot, streamMsgs, streamClosed, streamRecv>>
    /\ UNCHANGED handlerVars

\* mutant: events are delivered between a resolved promise and its continuation
EventDeliverableAlways == TRUE

\* handleTCPOutbound has no await of its own, so the promise the first message's
\* handler awaits is already resolved and the handler resumes in a microtask,
\* before the next event (message, close, remote data) is delivered
EventDeliverable == hpc # "awaitConnect"

\* a later message: written to the remote once the writer is there, else dropped
LaterMessage ==
    /\ worker = "single-file"
    /\ EventDeliverable
    /\ connectionEstablished /\ ~streamClosed
    /\ streamMsgs < MaxChunks
    /\ streamMsgs' = streamMsgs + 1
    /\ remoteGot' = IF remoteSocketWriter /\ tcpState = "open"
                    THEN Append(remoteGot, streamMsgs + 1) ELSE remoteGot
    /\ UNCHANGED <<pathDestination, serverReadyState, closeCode, closeReason,
                   connectionEstablished, remoteSocket, remoteSocketWriter, tcpState,
                   firstChunk, headerResult, hpc, tcpConnects, finalDestination, clientGot,
                   streamClosed, streamRecv>>
    /\ UNCHANGED handlerVars

\* the remote sends a chunk: clientSocket.send(chunk) while readyState === 1
StreamRemoteChunk ==
    /\ worker = "single-file"
    /\ EventDeliverable
    /\ tcpState = "open"
    /\ streamRecv < MaxRemoteChunks
    /\ streamRecv' = streamRecv + 1
    /\ clientGot' = IF serverReadyState = WS_READY_STATE_OPEN
                    THEN Append(clientGot, "data") ELSE clientGot
    /\ UNCHANGED <<pathDestination, serverReadyState, closeCode, closeReason,
                   connectionEstablished, remoteSocket, remoteSocketWriter, tcpState,
                   firstChunk, headerResult, hpc, tcpConnects, finalDestination, remoteGot,
                   streamMsgs, streamClosed>>
    /\ UNCHANGED handlerVars

\* the remote closes or fails: the pipe's close() or .catch only logs
StreamRemoteEnd ==
    /\ worker = "single-file"
    /\ EventDeliverable
    /\ tcpState = "open"
    /\ tcpState' = "closed"
    /\ UNCHANGED <<pathDestination, serverReadyState, closeCode, closeReason,
                   connectionEstablished, remoteSocket, remoteSocketWriter,
                   firstChunk, headerResult, hpc, tcpConnects, finalDestination, clientGot,
                   remoteGot, streamMsgs, streamClosed, streamRecv>>
    /\ UNCHANGED handlerVars

\* "close" listener: remoteSocket.close() when the variable is set (the "error"
\* listener does the same to the remote socket)
StreamClientClose ==
    /\ worker = "single-file"
    /\ EventDeliverable
    /\ ~streamClosed
    /\ streamClosed' = TRUE
    /\ serverReadyState' = 3
    /\ tcpState' = IF remoteSocket = "set" /\ tcpState = "open" THEN "closed" ELSE tcpState
    /\ UNCHANGED <<pathDestination, closeCode, closeReason,
                   connectionEstablished, remoteSocket, remoteSocketWriter,
                   firstChunk, headerResult, hpc, tcpConnects, finalDestination, clientGot,
                   remoteGot, streamMsgs, streamRecv>>
    /\ UNCHANGED handlerVars

\* ------------------------------------------------------ specification
Next ==
    \/ ClientMessage
    \/ ClientClose
    \/ ClientError
    \/ WriteSniff
    \/ SinkClose
    \/ SinkAbort
    \/ SniffUnknown
    \/ ParseError
    \/ UdpUnsupported
    \/ EnterDNS
    \/ StartTCP
    \/ StartTCPThrows
    \/ \E s \in Sockets : ConnectWriteOk(s)
    \/ \E s \in Sockets : ConnectWriteFail(s)
    \/ \E s \in Sockets : RemoteChunk(s)
    \/ \E s \in Sockets : RemoteClose(s)
    \/ \E s \in Sockets : RemoteError(s)
    \/ \E s \in Sockets : AfterPipe(s)
    \/ \E s \in Sockets : AfterPipeRetryThrows(s)
    \/ RetryClosed
    \/ WriteRelay
    \/ WriteRelayLocked
    \/ RelayOk
    \/ RelayFail
    \/ WriteDNS
    \/ DnsWriteOk
    \/ DnsWriteFail
    \/ DnsChunk
    \/ DnsEnd
    \/ FirstMessageError
    \/ FirstMessageConnect
    \/ FirstMessageConnectThrows
    \/ Connected
    \/ LaterMessage
    \/ StreamRemoteChunk
    \/ StreamRemoteEnd
    \/ StreamClientClose

Spec == Init /\ [][Next]_vars

\* ====================================================================
\* The single-file worker (part_004): the parsers called on their own
\* ====================================================================
\* the example headers of the documentation and of the parseSsHeader tests
ExampleCom == <<101, 120, 97, 109, 112, 108, 101, 46, 99, 111, 109>>
GoogleCom == <<103, 111, 111, 103, 108, 101, 46, 99, 111, 109>>
Hello == <<104, 101, 108, 108, 111>>
ExampleVless ==
    <<0>> \o Identity \o <<0, 1>> \o PortBytes \o <<2, Len(ExampleCom)>> \o ExampleCom \o Ping
ExampleSsIPv4 == <<1, 8, 8, 8, 8, 0, 53>>
ExampleSsDomain == <<3, Len(GoogleCom)>> \o GoogleCom \o PortBytes \o Hello

\* the address types a header is tried with
AddressTypes == {0, 1, 2, 3, 4, 5, 9, 255}

\* the buffers the parsers are tried on: the first chunks of the sessions, every
\* address type in each layout, every truncation of a well-formed header
Buffers ==
    Chunks
    \cup {ExampleVless, ExampleSsIPv4, ExampleSsDomain, ExampleSsIPv4 \o Ping}
    \cup {VlessChunk(0, <<>>, 1, t, Ping) : t \in AddressTypes}
    \cup {TrojanChunk(CRLF, 1, t, Ping) : t \in AddressTypes}
    \cup {ShadowsocksChunk(t, Ping) : t \in AddressTypes}
    \cup UNION {Prefixes(VlessChunk(0, <<0>>, 1, t, <<>>)) : t \in {1, 2, 3}}
    \cup UNION {Prefixes(TrojanChunk(CRLF, 1, t, <<>>)) : t \in {1, 3, 4}}
    \cup {<<3, 0>> \o PortBytes, <<3, 0>> \o PortBytes \o Ping}

\* mutant: a parser normalises the first byte of the buffer in place
BufferAfterParseInPlace(buf) == [i \in 1..Len(buf) |-> IF i = 1 THEN 0 ELSE buf[i]]

\* the bytes of the buffer after a parser has returned: the parsers only read
\* it, through DataView getters, slice() (a copy) and TextDecoder.decode()
BufferAfterParse(buf) == buf

ParseVless ==
    /\ worker = "parsers"
    /\ "parseVlessHeader" \notin parsed
    /\ vlessResult' = Tagged(parseVlessHeader(headerBuffer), "")
    /\ parsed' = parsed \cup {"parseVlessHeader"}
    /\ headerBuffer' = BufferAfterParse(headerBuffer)
    /\ UNCHANGED <<trojanResult, ssResult, requestResult>>
    /\ UNCHANGED <<wsVars, worker, streamVars, logEvents, coordVars>>

ParseTrojan ==
    /\ worker = "parsers"
    /\ "parseTrojanHeader" \notin parsed
    /\ trojanResult' = Tagged(parseTrojanHeader(headerBuffer), "")
    /\ parsed' = parsed \cup {"parseTrojanHeader"}
    /\ headerBuffer' = BufferAfterParse(headerBuffer)
    /\ UNCHANGED <<vlessResult, ssResult, requestResult>>
    /\ UNCHANGED <<wsVars, worker, streamVars, logEvents, coordVars>>

ParseShadowsocks ==
    /\ worker = "parsers"
    /\ "parseShadowsocksHeader" \notin parsed
    /\ ssResult' = Tagged(parseShadowsocksHeader(headerBuffer), "")
    /\ parsed' = parsed \cup {"parseShadowsocksHeader"}
    /\ headerBuffer' = BufferAfterParse(headerBuffer)
    /\ UNCHANGED <<vlessResult, trojanResult, requestResult>>
    /\ UNCHANGED <<wsVars, worker, streamVars, logEvents, coordVars>>

ParseRequest ==
    /\ worker = "parsers"
    /\ "parseRequestHeader" \notin parsed
    /\ requestResult' = parseRequestHeader(headerBuffer)
    /\ parsed' = parsed \cup {"parseRequestHeader"}
    /\ headerBuffer' = BufferAfterParse(headerBuffer)
    /\ UNCHANGED <<vlessResult, trojanResult, ssResult>>
    /\ UNCHANGED <<wsVars, worker, streamVars, logEvents, coordVars>>

InitParserSpec ==
    /\ worker = "parsers"
    /\ NoLog /\ NoCoordinator
    /\ InitHandlers({"none"}, {FALSE})
    /\ InitStream /\ pathDestination = NoDestination
    /\ InitParsers(Buffers)

NextParserSpec ==
    \/ ParseVless
    \/ ParseTrojan
    \/ ParseShadowsocks
    \/ ParseRequest

ParserSpec == InitParserSpec /\ [][NextParserSpec]_vars

\* ====================================================================
\* The log buffer (src/src/logging.js, and addLog of part_004)
\* ====================================================================

\* the two modules that keep a log buffer
LogWorkers == {"logging", "single-file logging"}

\* the MAX_LOG_ENTRIES of the module
MaxLogEntries(w) == IF w = "logging" THEN MAX_LOG_ENTRIES ELSE MAX_LOG_ENTRIES_004

\* mutant: Array.prototype.pop, which removes the last element
pop(log) == SubSeq(log, 1, Len(log) - 1)

\* Array.prototype.shift, which removes the first element
shift(log) == Tail(log)

\* addLog(message): push, then shift once when the buffer is over the limit
addLog(log, entry, max) ==
    LET pushed == Append(log, entry)
    IN  IF Len(pushed) > max THEN shift(pushed) ELSE pushed

\* let logEvents = ["[...] Worker started."]; nothing has been logged yet
InitLogSpec ==
    /\ worker \in LogWorkers
    /\ logEvents = <<0>>
    /\ storage = <<>> /\ kv = <<>> /\ calls = <<>>
    /\ trace = 0
    /\ InitHandlers({"none"}, {FALSE})
    /\ InitStream /\ pathDestination = NoDestination
    /\ InitParsers({<<>>})

\* one addLog call; trace counts the calls
AddLog ==
    /\ worker \in LogWorkers
    /\ trace < MaxLogCalls
    /\ trace' = trace + 1
    /\ logEvents' = addLog(logEvents, trace + 1, MaxLogEntries(worker))
    /\ UNCHANGED <<wsVars, worker, streamVars, parserVars, storage, kv, calls>>

NextLogSpec == AddLog

LogSpec == InitLogSpec /\ [][NextLogSpec]_vars

\* ====================================================================
\* The job-queue health checker (src/index.js, lines 1-213)
\* ====================================================================

\* a storage key that has no value, where the value would be a number
Undefined == -1

\* state.storage after deleteAll(): no key has a value
EmptyStorage ==
    [isRunning |-> FALSE, proxies |-> <<>>, results |-> <<>>,
     jobs_remaining |-> Undefined, currentIndex |-> Undefined]

\* env.PROXY_CACHE before a report has been stored
NoReport == [proxyCount |-> Undefined, proxies |-> {}]

\* value || 0
OrZero(value) == IF value = Undefined THEN 0 ELSE value

\* the scheduled() invocations that may run at once, and the callers of startCycle
Scheds == {1, 2}
Starters == {1, 2}

\* a scheduled() invocation that is not running
IdleSched == [pc |-> "idle", i |-> 0, job |-> 0, status |-> ""]

\* the proxy list a fetch of PROXY_LIST_URL yields: n lines
ProxyList(n) == [k \in 1..n |-> k]

InitQueueSpec ==
    /\ worker = "job-queue"
    /\ NoLog
    /\ storage = EmptyStorage
    /\ kv = [LATEST_HEALTH_REPORT |-> NoReport]
    /\ calls = [sched |-> [w \in Scheds |-> IdleSched],
                start |-> [c \in Starters |-> "idle"],
                gate |-> 0,
                pending |-> EmptyBag]
    /\ trace = [handed |-> <<>>, cycles |-> 0, reports |-> 0, starts |-> 0,
                status |-> [c \in Starters |-> 0]]
    /\ InitHandlers({"none"}, {FALSE})
    /\ InitStream /\ pathDestination = NoDestination
    /\ InitParsers({<<>>})

queueRest == <<wsVars, worker, streamVars, parserVars, logEvents>>

\* mutant: events are delivered to the object while a storage operation is awaited
InputGateOpenAlways == TRUE

\* the input gate of the Durable Object: while a method awaits a storage
\* operation no other event is delivered to the object
InputGateOpen == calls.gate = 0

\* startCycle up to await fetch(PROXY_LIST_URL): 409 while isRunning, else
\* isRunning is put
StartCycle(c) ==
    /\ worker = "job-queue"
    /\ calls.start[c] = "idle"
    /\ InputGateOpen
    /\ trace.starts < MaxStarts
    /\ IF storage.isRunning
       THEN /\ trace' = [trace EXCEPT !.starts = @ + 1, !.status[c] = 409]
            /\ UNCHANGED <<storage, calls>>
       ELSE /\ storage' = [storage EXCEPT !.isRunning = TRUE]
            /\ calls' = [calls EXCEPT !.start[c] = "fetching"]
            /\ trace' = [trace EXCEPT !.starts = @ + 1, !.status[c] = 0]
    /\ UNCHANGED <<kv, queueRest>>

\* the fetch answers with a status that is not ok: deleteAll(), 500
StartCycleNotOk(c) ==
    /\ worker = "job-queue"
    /\ calls.start[c] = "fetching"
    /\ InputGateOpen
    /\ storage' = EmptyStorage
    /\ calls' = [calls EXCEPT !.start[c] = "idle"]
    /\ trace' = [trace EXCEPT !.status[c] = 500]
    /\ UNCHANGED <<kv, queueRest>>

\* the fetch rejects (the list's host cannot be reached): startCycle rejects at
\* line 78 and nothing after it runs
StartCycleFetchThrows(c) ==
    /\ worker = "job-queue"
    /\ calls.start[c] = "fetching"
    /\ InputGateOpen
    /\ calls' = [calls EXCEPT !.start[c] = "idle"]
    /\ trace' = [trace EXCEPT !.status[c] = 1]
    /\ UNCHANGED <<storage, kv, queueRest>>

\* the fetch answers with the list: an empty one is cleaned up with 200, and
\* one with lines is stored with results, jobs_remaining and currentIndex, 202
StartCycleLoaded(c) ==
    /\ worker = "job-queue"
    /\ calls.start[c] = "fetching"
    /\ InputGateOpen
    /\ \E n \in 0..MaxProxies :
         IF n = 0
         THEN /\ storage' = EmptyStorage
              /\ trace' = [trace EXCEPT !.status[c] = 200]
         ELSE /\ storage' = [storage EXCEPT !.proxies = ProxyList(n), !.results = <<>>,
                                            !.jobs_remaining = n, !.currentIndex = 0]
              /\ trace' = [trace EXCEPT !.status[c] = 202, !.cycles = @ + 1,
                                        !.handed = <<>>]
    /\ calls' = [calls EXCEPT !.start[c] = "idle"]
    /\ UNCHANGED <<kv, queueRest>>

\* scheduled() is fired: the loop starts with i = 0
Scheduled(w) ==
    /\ worker = "job-queue"
    /\ calls.sched[w].pc = "idle"
    /\ calls' = [calls EXCEPT !.sched[w] = [IdleSched EXCEPT !.pc = "getJob"]]
    /\ UNCHANGED <<storage, kv, trace, queueRest>>

\* getJob up to its put: isRunning, currentIndex and proxies are read; null
\* ends the loop of the caller
GetJob(w) ==
    /\ worker = "job-queue"
    /\ calls.sched[w].pc = "getJob"
    /\ InputGateOpen
    /\ IF ~storage.isRunning \/ OrZero(storage.currentIndex) >= Len(storage.proxies)
       THEN calls' = [calls EXCEPT !.sched[w] = IdleSched]
       ELSE calls' = [calls EXCEPT !.sched[w].pc = "put",
                                   !.sched[w].job = OrZero(storage.currentIndex),
                                   !.gate = w]
    /\ UNCHANGED <<storage, kv, trace, queueRest>>

\* getJob: put("currentIndex", currentIndex + 1), return proxies[currentIndex]
GetJobPut(w) ==
    /\ worker = "job-queue"
    /\ calls.sched[w].pc = "put"
    /\ storage' = [storage EXCEPT !.currentIndex = calls.sched[w].job + 1]
    /\ calls' = [calls EXCEPT !.sched[w].pc = "check", !.gate = 0]
    /\ trace' = [trace EXCEPT !.handed = Append(@, calls.sched[w].job)]
    /\ UNCHANGED <<kv, queueRest>>

\* the next iteration of the loop of scheduled(), or its end after BATCH_SIZE
NextIteration(w, c) ==
    IF c.sched[w].i + 1 < BATCH_SIZE
    THEN [c EXCEPT !.sched[w].pc = "getJob", !.sched[w].i = @ + 1]
    ELSE [c EXCEPT !.sched[w] = IdleSched]

\* ctx.waitUntil(stub.recordResult(finalData)): the call is on its way
SendResult(w, status, c) ==
    [c EXCEPT !.pending = @ (+) SetToBag({[job |-> c.sched[w].job, status |-> status]})]

\* checkProxy returns dead: the result is sent as it is
CheckProxyDead(w) ==
    /\ worker = "job-queue"
    /\ calls.sched[w].pc = "check"
    /\ calls' = NextIteration(w, SendResult(w, "dead", calls))
    /\ UNCHANGED <<storage, kv, trace, queueRest>>

\* checkProxy returns alive: getEnrichmentData is awaited
CheckProxyAlive(w) ==
    /\ worker = "job-queue"
    /\ calls.sched[w].pc = "check"
    /\ calls' = [calls EXCEPT !.sched[w].pc = "enrich"]
    /\ UNCHANGED <<storage, kv, trace, queueRest>>

\* getEnrichmentData returns (from the cache, the lookup, or "N/A")
Enriched(w) ==
    /\ worker = "job-queue"
    /\ calls.sched[w].pc = "enrich"
    /\ calls' = NextIteration(w, SendResult(w, "alive", calls))
    /\ UNCHANGED <<storage, kv, trace, queueRest>>

\* env.GEOIP_CACHE.get(ip, 'json') rejects at line 26, outside the try:
\* getEnrichmentData and scheduled() reject, the job's result is never sent
EnrichThrows(w) ==
    /\ worker = "job-queue"
    /\ calls.sched[w].pc = "enrich"
    /\ calls' = [calls EXCEPT !.sched[w] = IdleSched]
    /\ UNCHANGED <<storage, kv, trace, queueRest>>

\* the proxies of the results that are alive (their order, by latency, is left out)
AliveProxies(results) ==
    {results[k].job : k \in {j \in 1..Len(results) : results[j].status = "alive"}}

\* generateAndStoreReport: the report of the stored results
Report(results) ==
    [proxyCount |-> Cardinality(AliveProxies(results)), proxies |-> AliveProxies(results)]

\* mutant: the report is generated after every result
ReportDueAlways(remaining) == TRUE

\* recordResult: if (remaining <= 0)
ReportDue(remaining) == remaining <= 0

\* recordResult(result) under blockConcurrencyWhile: ignored while not running;
\* the result is pushed, jobs_remaining is decremented when it is a number and
\* at 0 generateAndStoreReport stores the report and calls deleteAll()
RecordResult(r) ==
    /\ worker = "job-queue"
    /\ BagIn(r, calls.pending)
    /\ InputGateOpen
    /\ calls' = [calls EXCEPT !.pending = @ (-) SetToBag({r})]
    /\ IF ~storage.isRunning
       THEN UNCHANGED <<storage, kv, trace>>
       ELSE LET results == Append(storage.results, [job |-> r.job, status |-> r.status])
            IN  IF storage.jobs_remaining = Undefined
                THEN /\ storage' = [storage EXCEPT !.results = results]
                     /\ UNCHANGED <<kv, trace>>
                ELSE IF ReportDue(storage.jobs_remaining - 1)
                     THEN /\ kv' = [kv EXCEPT !.LATEST_HEALTH_REPORT = Report(results)]
                          /\ storage' = EmptyStorage
                          /\ trace' = [trace EXCEPT !.reports = @ + 1]
                     ELSE /\ storage' = [storage EXCEPT
                                            !.results = results,
                                            !.jobs_remaining = @ - 1]
                          /\ UNCHANGED <<kv, trace>>
    /\ UNCHANGED queueRest

NextQueueSpec ==
    \/ \E c \in Starters : StartCycle(c)
    \/ \E c \in Starters : StartCycleNotOk(c)
    \/ \E c \in Starters : StartCycleFetchThrows(c)
    \/ \E c \in Starters : StartCycleLoaded(c)
    \/ \E w \in Scheds : Scheduled(w)
    \/ \E w \in Scheds : GetJob(w)
    \/ \E w \in Scheds : GetJobPut(w)
    \/ \E w \in Scheds : CheckProxyDead(w)
    \/ \E w \in Scheds : CheckProxyAlive(w)
    \/ \E w \in Scheds : Enriched(w)
    \/ \E w \in Scheds : EnrichThrows(w)
    \/ \E r \in BagToSet(calls.pending) : RecordResult(r)

QueueSpec == InitQueueSpec /\ [][NextQueueSpec]_vars

\* the same coordinator where scheduled() keeps firing and every step that is
\* waiting for the runtime (a storage operation, a connection test, a lookup,
\* a call on its way, the fetch of the list) is taken in the end
FairQueueSpec ==
    /\ QueueSpec
    /\ \A w \in Scheds :
          /\ WF_vars(Scheduled(w))
          /\ WF_vars(GetJob(w))
          /\ WF_vars(GetJobPut(w))
          /\ WF_vars(CheckProxyDead(w) \/ CheckProxyAlive(w))
          /\ WF_vars(Enriched(w) \/ EnrichThrows(w))
    /\ \A c \in Starters :
          WF_vars(StartCycleNotOk(c) \/ StartCycleFetchThrows(c) \/ StartCycleLoaded(c))
    /\ WF_vars(\E r \in BagToSet(calls.pending) : RecordResult(r))

\* ====================================================================
\* The alarm-driven health checker (src/unnamed/part_006)
\* ====================================================================

\* statistics before fetch() has stored one: storage.get("statistics") || {}
NoStatistics ==
    [total_proxies |-> Undefined, total_checked |-> Undefined, total_alive |-> Undefined]

\* state.storage after deleteAll(): no key has a value
EmptyAlarmStorage ==
    [proxies |-> <<>>, currentIndex |-> Undefined, alive_proxies |-> <<>>,
     statistics |-> NoStatistics]

\* the list the fetch of cycle c yields: a line for each entry of answers, which
\* tells whether checkProxy will find the proxy of the line alive
CycleList(c, answers) ==
    [k \in 1..Len(answers) |-> [cycle |-> c, line |-> k, alive |-> answers[k]]]

\* the cycle a list belongs to (0: no list)
CycleOf(proxies) == IF proxies = <<>> THEN 0 ELSE proxies[1].cycle

\* the callers of fetch() (POST /force-health)
Fetchers == {1, 2}

\* the lists fetch() is answered with: the short ones, and one that takes more
\* than one batch
AlarmLists ==
    UNION {[1..n -> BOOLEAN] : n \in 1..MaxProxies}
    \cup {[k \in 1..(BATCH_SIZE_006 + 1) |-> k % 2 = 1]}

\* alarm() while it does not run
IdleAlarm ==
    [pc |-> "idle", stats |-> NoStatistics, proxies |-> <<>>, currentIndex |-> 0,
     alive_proxies |-> <<>>, i |-> 0]

InitAlarmSpec ==
    /\ worker = "alarm"
    /\ NoLog
    /\ storage = EmptyAlarmStorage
    /\ kv = [LATEST_HEALTH_REPORT |-> NoStatistics, LATEST_ALIVE_PROXIES |-> <<>>]
    /\ calls = [alarm |-> IdleAlarm, fetch |-> [f \in Fetchers |-> "idle"], alarmSet |-> FALSE]
    /\ trace = [cycles |-> 0, starts |-> 0, storedBy |-> 0]
    /\ InitHandlers({"none"}, {FALSE})
    /\ InitStream /\ pathDestination = NoDestination
    /\ InitParsers({<<>>})

\* fetch() up to await fetch(PROXY_LIST_URL): deleteAll(), which leaves an
\* alarm that is set as it is
FetchStart(f) ==
    /\ worker = "alarm"
    /\ calls.fetch[f] = "idle"
    /\ trace.starts < MaxStarts
    /\ storage' = EmptyAlarmStorage
    /\ calls' = [calls EXCEPT !.fetch[f] = "fetching"]
    /\ trace' = [trace EXCEPT !.starts = @ + 1]
    /\ UNCHANGED <<kv, queueRest>>

\* the list could not be had (status not ok, or the fetch rejects) or is empty:
\* fetch() returns with nothing stored
FetchNothing(f) ==
    /\ worker = "alarm"
    /\ calls.fetch[f] = "fetching"
    /\ calls' = [calls EXCEPT !.fetch[f] = "idle"]
    /\ UNCHANGED <<storage, kv, trace, queueRest>>

\* the list is loaded: proxies, currentIndex, alive_proxies and statistics are
\* put and the first alarm is set
FetchLoaded(f) ==
    /\ worker = "alarm"
    /\ calls.fetch[f] = "fetching"
    /\ \E answers \in AlarmLists :
         storage' = [proxies |-> CycleList(trace.cycles + 1, answers),
                     currentIndex |-> 0,
                     alive_proxies |-> <<>>,
                     statistics |-> [total_proxies |-> Len(answers), total_checked |-> 0,
                                     total_alive |-> 0]]
    /\ calls' = [calls EXCEPT !.fetch[f] = "idle", !.alarmSet = TRUE]
    /\ trace' = [trace EXCEPT !.cycles = @ + 1, !.storedBy = trace.cycles + 1]
    /\ UNCHANGED <<kv, queueRest>>

\* the for loop of alarm() goes on: i < BATCH_SIZE and a proxy is left
LoopGoesOn(a) == a.i < BATCH_SIZE_006 /\ a.currentIndex < Len(a.proxies)

\* the puts behind the loop: currentIndex, statistics, alive_proxies
AlarmPuts(a) ==
    [storage EXCEPT !.currentIndex = a.currentIndex, !.statistics = a.stats,
                    !.alive_proxies = a.alive_proxies]

\* alarm() after the loop: the puts are made and generateAndStoreReport awaited
AlarmStores(a, set) ==
    /\ storage' = AlarmPuts(a)
    /\ calls' = [calls EXCEPT !.alarm = [a EXCEPT !.pc = "report"], !.alarmSet = set]
    /\ trace' = [trace EXCEPT !.storedBy = CycleOf(a.proxies)]

\* the alarm fires: statistics, proxies, currentIndex and alive_proxies are read;
\* the loop awaits the check of the first proxy, or with none left ends at once
AlarmFires ==
    /\ worker = "alarm"
    /\ calls.alarmSet /\ calls.alarm.pc = "idle"
    /\ LET a == [pc |-> "loop", stats |-> storage.statistics, proxies |-> storage.proxies,
                 currentIndex |-> OrZero(storage.currentIndex),
                 alive_proxies |-> storage.alive_proxies, i |-> 0]
       IN  IF LoopGoesOn(a)
           THEN /\ calls' = [calls EXCEPT !.alarm = a, !.alarmSet = FALSE]
                /\ UNCHANGED <<storage, trace>>
           ELSE AlarmStores(a, FALSE)
    /\ UNCHANGED <<kv, queueRest>>

\* total_checked++ and, for a proxy that is alive, total_alive++
Checked(stats, alive) ==
    [stats EXCEPT !.total_checked = @ + 1,
                  !.total_alive = IF alive THEN @ + 1 ELSE @]

\* checkProxy and getEnrichmentData return for proxies[currentIndex]: the local
\* statistics and alive_proxies are updated, currentIndex++; behind the last
\* iteration the puts follow
AlarmChecks ==
    /\ worker = "alarm"
    /\ calls.alarm.pc = "loop"
    /\ LET a == calls.alarm
           alive == a.proxies[a.currentIndex + 1].alive
           b == [a EXCEPT !.stats = Checked(a.stats, alive),
                          !.alive_proxies = IF alive
                                            THEN Append(@, a.proxies[a.currentIndex + 1])
                                            ELSE @,
                          !.currentIndex = @ + 1,
                          !.i = @ + 1]
       IN  IF LoopGoesOn(b)
           THEN /\ calls' = [calls EXCEPT !.alarm = b]
                /\ UNCHANGED <<storage, trace>>
           ELSE AlarmStores(b, calls.alarmSet)
    /\ UNCHANGED <<kv, queueRest>>

\* generateAndStoreReport has put the report; a proxy is left: setAlarm, else
\* deleteAll()
AlarmEnds ==
    /\ worker = "alarm"
    /\ calls.alarm.pc = "report"
    /\ kv' = [LATEST_HEALTH_REPORT |-> calls.alarm.stats,
              LATEST_ALIVE_PROXIES |-> calls.alarm.alive_proxies]
    /\ IF calls.alarm.currentIndex < Len(calls.alarm.proxies)
       THEN /\ calls' = [calls EXCEPT !.alarm = IdleAlarm, !.alarmSet = TRUE]
            /\ UNCHANGED storage
       ELSE /\ calls' = [calls EXCEPT !.alarm = IdleAlarm]
            /\ storage' = EmptyAlarmStorage
    /\ UNCHANGED <<trace, queueRest>>

NextAlarmSpec ==
    \/ \E f \in Fetchers : FetchStart(f)
    \/ \E f \in Fetchers : FetchNothing(f)
    \/ \E f \in Fetchers : FetchLoaded(f)
    \/ AlarmFires
    \/ AlarmChecks
    \/ AlarmEnds

AlarmSpec == InitAlarmSpec /\ [][NextAlarmSpec]_vars

\* --------------------------------------------------------------------
\* The cron-driven health checker of the Deno variant (worker = "cron"):
\* POST /force-health stores the list under proxies_to_check, and the cron
\* callback takes one proxy at a time off it with an atomic check-and-set.
\* kv is the Deno KV store: job_state, proxies_to_check with the versionstamp
\* of its last write, and health_report. Deno.cron does not start a callback
\* while the previous one runs; the HTTP handlers run at any await of it.
\* --------------------------------------------------------------------

\* no value under a key: no list, no report
EmptyKv ==
    [job_state |-> "none", proxies_to_check |-> <<>>, versionstamp |-> 0,
     health_report |-> NoStatistics]

\* the callers of POST /force-health
Posters == {1}

\* the lists of PROXY_LIST_URL, as line numbers: the short ones, and one that
\* takes more than one batch (an empty text gives an empty list)
CronLists == {n \in 0..MaxProxies : TRUE} \cup {BATCH_SIZE_001 + 1}

\* the proxies of a list of n lines fetched as cycle c
Lines(c, n) == [k \in 1..n |-> [cycle |-> c, line |-> k]]

\* the cron callback while it does not run
IdleCron == [pc |-> "idle", i |-> 0, res |-> <<>>, versionstamp |-> 0, proxyAddress |-> <<>>]

\* the names checkProxy can refer to: its parameters, its locals and the
\* declarations of the module
CheckProxyScope ==
    {"proxyAddress", "timeout", "hostname", "portStr", "port", "startTime", "conn",
     "kv", "b64Encode", "createVmessConfig", "parseVmessSubscription",
     "isVmessConfigured", "checkProxy", "getEnrichmentData"}

\* checkProxy(proxyAddress): its first statement reads the identifier proxy
checkProxy(proxyAddress) ==
    IF "proxy" \notin CheckProxyScope
    THEN [thrown |-> "ReferenceError"]
    ELSE [proxy |-> proxyAddress, status |-> "dead"]

InitCronSpec ==
    /\ worker = "cron"
    /\ NoLog
    /\ storage = <<>>
    /\ kv = EmptyKv
    /\ calls = [cron |-> IdleCron, force |-> [h \in Posters |-> [pc |-> "idle", proxies |-> <<>>]]]
    /\ trace = [cycles |-> 0, starts |-> 0, run |-> 0, taken |-> EmptyBag,
                processed |-> EmptyBag]
    /\ InitHandlers({"none"}, {FALSE})
    /\ InitStream /\ pathDestination = NoDestination
    /\ InitParsers({<<>>})

\* POST /force-health: the list is fetched and split, and the old report is
\* deleted (a fetch that rejects is answered 500 and changes nothing)
ForceDelete(h) ==
    /\ worker = "cron"
    /\ calls.force[h].pc = "idle"
    /\ trace.starts < MaxStarts
    /\ \E n \in CronLists :
         calls' = [calls EXCEPT !.force[h] = [pc |-> "setList",
                                              proxies |-> Lines(trace.cycles + 1, n)]]
    /\ kv' = [kv EXCEPT !.health_report = NoStatistics]
    /\ trace' = [trace EXCEPT !.starts = @ + 1, !.cycles = @ + 1]
    /\ UNCHANGED <<storage, queueRest>>

\* kv.set(["proxies_to_check"], proxies)
ForceSetList(h) ==
    /\ worker = "cron"
    /\ calls.force[h].pc = "setList"
    /\ kv' = [kv EXCEPT !.proxies_to_check = calls.force[h].proxies,
                        !.versionstamp = @ + 1]
    /\ calls' = [calls EXCEPT !.force[h].pc = "setState"]
    /\ UNCHANGED <<storage, trace, queueRest>>

\* kv.set(["job_state"], "running")
ForceSetState(h) ==
    /\ worker = "cron"
    /\ calls.force[h].pc = "setState"
    /\ kv' = [kv EXCEPT !.job_state = "running"]
    /\ calls' = [calls EXCEPT !.force[h].pc = "setReport"]
    /\ UNCHANGED <<storage, trace, queueRest>>

\* the report object is initialised and the request is answered
ForceSetReport(h) ==
    /\ worker = "cron"
    /\ calls.force[h].pc = "setReport"
    /\ kv' = [kv EXCEPT !.health_report =
                 [total_proxies |-> Len(calls.force[h].proxies), total_checked |-> 0,
                  total_alive |-> 0]]
    /\ calls' = [calls EXCEPT !.force[h] = [pc |-> "idle", proxies |-> <<>>]]
    /\ UNCHANGED <<storage, trace, queueRest>>

\* the cron callback fires while a job is running and enters its loop (with
\* any other job_state it returns at once)
CronFires ==
    /\ worker = "cron"
    /\ calls.cron.pc = "idle"
    /\ kv.job_state = "running"
    /\ calls' = [calls EXCEPT !.cron = [IdleCron EXCEPT !.pc = "loop"]]
    /\ trace' = [trace EXCEPT !.run = @ + 1]
    /\ UNCHANGED <<storage, kv, queueRest>>

\* one iteration reads proxies_to_check and shifts the first proxy off its copy
CronReads ==
    /\ worker = "cron"
    /\ calls.cron.pc = "loop"
    /\ calls.cron.i < BATCH_SIZE_001
    /\ calls' = [calls EXCEPT !.cron =
                   IF kv.proxies_to_check = <<>>
                   THEN [@ EXCEPT !.pc = "completed"]
                   ELSE [@ EXCEPT !.pc = "commit",
                                  !.res = Tail(kv.proxies_to_check),
                                  !.versionstamp = kv.versionstamp,
                                  !.proxyAddress = Head(kv.proxies_to_check)]]
    /\ UNCHANGED <<storage, kv, trace, queueRest>>

\* no proxy was left: job_state becomes "completed" and the loop is left
CronCompletes ==
    /\ worker = "cron"
    /\ calls.cron.pc = "completed"
    /\ kv' = [kv EXCEPT !.job_state = "completed"]
    /\ calls' = [calls EXCEPT !.cron = IdleCron]
    /\ UNCHANGED <<storage, trace, queueRest>>

\* atomic().check(res).set(...).commit() succeeds: the key was not written
\* since it was read
CronCommits ==
    /\ worker = "cron"
    /\ calls.cron.pc = "commit"
    /\ kv.versionstamp = calls.cron.versionstamp
    /\ kv' = [kv EXCEPT !.proxies_to_check = calls.cron.res, !.versionstamp = @ + 1]
    /\ calls' = [calls EXCEPT !.cron.pc = "process"]
    /\ trace' = [trace EXCEPT !.taken = @ (+) SetToBag({calls.cron.proxyAddress})]
    /\ UNCHANGED <<storage, queueRest>>

\* the commit fails: continue with the next iteration
CronCommitFails ==
    /\ worker = "cron"
    /\ calls.cron.pc = "commit"
    /\ kv.versionstamp # calls.cron.versionstamp
    /\ calls' = [calls EXCEPT !.cron = [@ EXCEPT !.pc = "loop", !.i = @ + 1]]
    /\ UNCHANGED <<storage, kv, trace, queueRest>>

\* the try block: checkProxy throws at its first statement, so the catch logs
\* and the statements that update health_report are not reached
CronProcesses ==
    /\ worker = "cron"
    /\ calls.cron.pc = "process"
    /\ checkProxy(calls.cron.proxyAddress) = [thrown |-> "ReferenceError"]
    /\ calls' = [calls EXCEPT !.cron = [@ EXCEPT !.pc = "loop", !.i = @ + 1]]
    /\ trace' = [trace EXCEPT !.processed = @ (+) SetToBag({calls.cron.proxyAddress})]
    /\ UNCHANGED <<storage, kv, queueRest>>

\* BATCH_SIZE iterations are done
CronBatchEnds ==
    /\ worker = "cron"
    /\ calls.cron.pc = "loop"
    /\ calls.cron.i >= BATCH_SIZE_001
    /\ calls' = [calls EXCEPT !.cron = IdleCron]
    /\ UNCHANGED <<storage, kv, trace, queueRest>>

NextCronSpec ==
    \/ \E h \in Posters : ForceDelete(h)
    \/ \E h \in Posters : ForceSetList(h)
    \/ \E h \in Posters : ForceSetState(h)
    \/ \E h \in Posters : ForceSetReport(h)
    \/ CronFires
    \/ CronReads
    \/ CronCompletes
    \/ CronCommits
    \/ CronCommitFails
    \/ CronProcesses
    \/ CronBatchEnds

CronSpec == InitCronSpec /\ [][NextCronSpec]_vars

\* ====================================================================
\* Claims
\* ====================================================================

\* the session flag hasReceivedRemoteData: some remoteSocketToWS call saw a chunk
hasReceivedRemoteData == \E s \in Sockets : hasIncomingData[s]

\* no handler of the session has anything left to do
Quiet ==
    /\ sink \in {"idle", "closed", "errored"}
    /\ queue = <<>>
    /\ dnsPc = "none"
    /\ \A s \in Sockets : cw[s] # "writing" /\ pump[s] \notin {"piping", "settled"}
    /\ closedHook # "attached" \/ sockState[2] # "closed"

C2_ReceivedDataIsStickyAndStopsRetry ==
    /\ []((\E s \in Sockets : recv[s] > 0) => hasReceivedRemoteData)
    /\ [][hasReceivedRemoteData =>
            /\ hasReceivedRemoteData'
            /\ retryCalls' = retryCalls
            /\ connects' = connects]_vars

\* C2 witness: the primary socket closed right after its first chunk and
\* remoteSocketToWS ran to its end without retrying
C2_Witness ==
    /\ recv[1] = 1 /\ hasIncomingData[1]
    /\ sockState[1] = "closed" /\ pump[1] = "done" /\ ~pumpRejected[1]
    /\ connects = 1 /\ retryCalls = 0

\* C3: when the primary pipe has ended with no chunk delivered, retry() has been
\* called exactly once; a pipe that completed normally reaches that call with
\* the handler not having closed the WebSocket on the way.
C3_RetryOnceAfterEmptyPrimary ==
    /\ [](retryCalls <= 1)
    /\ []((pump[1] = "done" /\ ~hasIncomingData[1]) => retryCalls = 1)
    /\ [][(/\ pump[1] \in {"piping", "settled"}
            /\ pump'[1] # pump[1]
            /\ ~pumpRejected'[1] /\ ~hasIncomingData'[1])
           => /\ readyState' = readyState
              /\ pump'[1] = "done" => retryCalls' = retryCalls + 1]_vars

\* C3 witness: the primary pipe completed with zero chunks, retry ran once and
\* the WebSocket is still open
C3_Witness ==
    /\ pump[1] = "done" /\ ~hasIncomingData[1] /\ ~pumpRejected[1]
    /\ retryCalls = 1 /\ connects = 2
    /\ readyState = WS_READY_STATE_OPEN

C6_PreambleOnlyOnFirstChunk ==
    \A i \in 1..Len(sent) :
        sent[i].from # 0 => (sent[i].hdr <=> (i = 1 /\ protocolHeader.version))

\* C6 witness: the retry socket delivered two chunks, the first with the preamble
C6_Witness ==
    /\ Len(sent) >= 2
    /\ sent[1].from = 2 /\ sent[1].hdr
    /\ sent[2].from = 2 /\ ~sent[2].hdr
    /\ retryCalls = 1

\* C7: isDNS is set only for a header with isUDP and portRemote 53; a UDP header
\* with another port fails the session and no connect() is ever made for it.
C7_DnsOnlyForUdp53 ==
    /\ isDNS => (protocolHeader.isUDP /\ protocolHeader.portRemote = DNS_PORT)
    /\ (protocolHeader.isUDP /\ protocolHeader.portRemote # DNS_PORT)
          => /\ ~isDNS
             /\ connects = 0 /\ dnsConnects = 0
             /\ sink = "errored"

\* C7 witness: a well-formed UDP header for port 443 failed the session, and the
\* client's later messages and close changed nothing
C7_Witness ==
    /\ protocolHeader.isUDP /\ ~protocolHeader.hasError /\ protocolHeader.portRemote = 443
    /\ pipeError = "UDP only support for DNS port 53"
    /\ msgs = MaxChunks /\ clientClosed

\* C8 (as claimed): in a DNS session the first message relayed from the resolver
\* carries the response preamble when there is one, and no other message does.
C8_DnsPreambleOnFirstRelayedChunk ==
    \A i \in 1..Len(sent) :
        sent[i].from = 0 => (sent[i].hdr <=> (i = 1 /\ protocolHeader.version))

\* C9: a first chunk that fails sniffing or parsing ends the session: for it no
\* connect() is ever made, nothing is written to a remote socket and nothing is
\* sent to the client, on the handlers worker and on the single-file worker.
C9_ParseFailureIsFatal ==
    /\ (worker = "handlers" /\ (protocolHeader.hasError \/ pipeError = "Unknown Protocol!"))
          => /\ connects = 0 /\ dnsConnects = 0
             /\ \A s \in Sockets : written[s] = <<>>
             /\ sent = <<>>
             /\ sink = "errored" /\ queue = <<>>
    /\ (worker = "single-file" /\ connectionEstablished /\ headerResult.error # "")
          => /\ tcpConnects = 0
             /\ remoteGot = <<>> /\ clientGot = <<>>
             /\ closeCode = 1002 /\ serverReadyState # WS_READY_STATE_OPEN

\* C9 witness: the header had an error, the client went on to send all its
\* messages and closed, and still nothing was connected or relayed
C9_Witness ==
    /\ worker = "handlers"
    /\ protocolHeader.hasError /\ pipeError = "parse error"
    /\ msgs = MaxChunks /\ clientClosed
    /\ connects = 0

\* a VLESS-layout chunk whose address type byte is 9
IsVlessType9(chunk) ==
    /\ Len(chunk) > 17
    /\ InBuf(chunk, 18 + getUint8(chunk, 17) + 3, 1)
    /\ getUint8(chunk, 18 + getUint8(chunk, 17) + 3) = 9

\* C10 (as claimed): a session whose first chunk is a VLESS-layout header with
\* address type 9 gets no destination from parseRequestHeader and never connects.
C10_VlessType9NeverConnects ==
    (worker = "single-file" /\ connectionEstablished /\ IsVlessType9(firstChunk))
        => (headerResult.error # "" /\ tcpConnects = 0)

\* ---- the parsers called on their own (ParserSpec)
AllParsed == parsed = Parsers
VlessSucceeds == Len(headerBuffer) > 17 /\ vlessResult.error = ""
TrojanSucceeds == Len(headerBuffer) > 58 /\ trojanResult.error = ""
ShadowsocksSucceeds == Len(headerBuffer) > 4 /\ ssResult.error = ""

\* C11: parseRequestHeader returns the VLESS result whenever the chunk is longer
\* than 17 bytes and parseVlessHeader succeeds; the Trojan result only when VLESS
\* did not apply or failed, the chunk is longer than 58 bytes and parseTrojanHeader
\* succeeds; the Shadowsocks result only when both others did not apply or failed
\* and the chunk is longer than 4 bytes.
C11_SnifferOrder ==
    AllParsed =>
        /\ VlessSucceeds => requestResult = Tagged(vlessResult, "VLESS")
        /\ requestResult.protocol = "Trojan" =>
               /\ ~VlessSucceeds /\ TrojanSucceeds
               /\ requestResult = Tagged(trojanResult, "Trojan")
        /\ requestResult.protocol = "Shadowsocks" =>
               /\ ~VlessSucceeds /\ ~TrojanSucceeds /\ ShadowsocksSucceeds
               /\ requestResult = Tagged(ssResult, "Shadowsocks")

\* a chunk both the VLESS and the Shadowsocks parser accept, resolved to VLESS
C11_Witness ==
    /\ AllParsed
    /\ VlessSucceeds /\ ShadowsocksSucceeds
    /\ requestResult.protocol = "VLESS"

\* the offset behind the address a header declares, from the offset of its
\* address type byte and the numbers its protocol gives IPv4, domain and IPv6
DeclaredAddressEnd(buf, typeAt, ipv4, domain, ipv6) ==
    CASE getUint8(buf, typeAt) = ipv4 -> typeAt + 1 + 4
      [] getUint8(buf, typeAt) = domain ->
             IF Len(buf) > typeAt + 1 THEN typeAt + 1 + 1 + getUint8(buf, typeAt + 1)
             ELSE typeAt + 1 + 1
      [] getUint8(buf, typeAt) = ipv6 -> typeAt + 1 + 16
      [] OTHER -> typeAt + 1

\* C12 (as claimed): a parser that returns a destination has found every byte its
\* header declares inside the buffer: the add-ons, the address, the port and
\* (Trojan) the trailing CRLF; a header that runs past the buffer is a failure.
C12_NeverReadsPastBuffer ==
    /\ ("parseVlessHeader" \in parsed /\ vlessResult.error = "") =>
          DeclaredAddressEnd(headerBuffer, 18 + getUint8(headerBuffer, 17) + 3, 1, 2, 3)
              <= Len(headerBuffer)
    /\ ("parseTrojanHeader" \in parsed /\ trojanResult.error = "") =>
          DeclaredAddressEnd(headerBuffer, 59, 1, 3, 4) + 2 + 2 <= Len(headerBuffer)
    /\ ("parseShadowsocksHeader" \in parsed /\ ssResult.error = "") =>
          DeclaredAddressEnd(headerBuffer, 0, 1, 3, 4) + 2 <= Len(headerBuffer)

\* C13: parseRequestHeader fails with its unknown-protocol error and no
\* destination whenever no parser succeeds on the chunk; every chunk of 0 to 4
\* bytes is rejected, and a chunk of 5 to 17 bytes is accepted only as Shadowsocks.
C13_UnknownProtocol ==
    AllParsed =>
        /\ (~VlessSucceeds /\ ~TrojanSucceeds /\ ~ShadowsocksSucceeds) =>
              /\ requestResult.error = "Could not determine protocol."
              /\ requestResult.destination = NoDestination
        /\ Len(headerBuffer) <= 4 =>
              /\ requestResult.error # ""
              /\ requestResult.destination = NoDestination
        /\ (Len(headerBuffer) \in 5..17 /\ requestResult.error = "") =>
              requestResult.protocol = "Shadowsocks"

\* a 4-byte chunk parseShadowsocksHeader itself accepts, rejected by the sniffer
C13_Witness ==
    /\ AllParsed
    /\ Len(headerBuffer) = 4
    /\ ssResult.error = ""
    /\ requestResult.error = "Could not determine protocol."

\* bytes 56 and 57 of the buffer are CR LF
HasCRLF == Len(headerBuffer) >= 58 /\ headerBuffer[57] = 13 /\ headerBuffer[58] = 10

\* C14: parseTrojanHeader returns an error and neither address nor port for
\* every buffer whose bytes 56 and 57 are not CR LF, whatever else it holds.
C14_TrojanNeedsCRLF ==
    ("parseTrojanHeader" \in parsed /\ ~HasCRLF) =>
        /\ trojanResult.error # ""
        /\ trojanResult.destination = NoDestination

\* a Trojan request, well-formed but for LF CR in place of CR LF, has been refused
C14_Witness ==
    /\ "parseTrojanHeader" \in parsed
    /\ Len(headerBuffer) > 66
    /\ headerBuffer[57] = 10 /\ headerBuffer[58] = 13
    /\ headerBuffer[59] = 1 /\ headerBuffer[60] = 1
    /\ trojanResult.error = "Invalid Trojan header (CRLF not found)."

\* the addresses of the headers tried, as the text a parser should return
TextIPv4 == <<49, 46, 50, 46, 51, 46, 52>>
TextIPv6 == <<50, 48, 48, 49, 58, 100, 98, 56, 58, 48, 58, 48, 58, 48, 58, 48, 58, 48, 58, 49>>

\* the address a complete header declares: dotted decimal, the domain's own
\* bytes, or colon-separated hexadecimal groups
DeclaredAddress(buf, typeAt, ipv4, domain, ipv6) ==
    CASE getUint8(buf, typeAt) = ipv4 /\ SubSeq(buf, typeAt + 2, typeAt + 5) = IPv4Bytes -> TextIPv4
      [] getUint8(buf, typeAt) = ipv4 /\ SubSeq(buf, typeAt + 2, typeAt + 5) = <<8, 8, 8, 8>> ->
             <<56, 46, 56, 46, 56, 46, 56>>
      [] getUint8(buf, typeAt) = domain ->
             SubSeq(buf, typeAt + 3, typeAt + 2 + getUint8(buf, typeAt + 1))
      [] getUint8(buf, typeAt) = ipv6 /\ SubSeq(buf, typeAt + 2, typeAt + 17) = IPv6Bytes -> TextIPv6

\* where the header puts the VLESS command byte
VlessCommandAt == 18 + getUint8(headerBuffer, 17)

\* the buffer holds a complete VLESS request: command 1, an address type of
\* 1, 2 or 3, and every byte of the address
VlessWellFormed ==
    /\ Len(headerBuffer) > 17
    /\ Len(headerBuffer) > VlessCommandAt + 3
    /\ getUint8(headerBuffer, VlessCommandAt) = 1
    /\ getUint8(headerBuffer, VlessCommandAt + 3) \in {1, 2, 3}
    /\ DeclaredAddressEnd(headerBuffer, VlessCommandAt + 3, 1, 2, 3) <= Len(headerBuffer)

\* C15: parseVlessHeader decodes a well-formed header without error: add-ons
\* length N at byte 17, command 1 at byte 18+N, the big-endian port in the next two
\* bytes, an address type of 1, 2 or 3, the address, and every byte behind the
\* address unchanged as payload; the example header gives example.com:443, "PING".
C15_VlessDecodes ==
    /\ ("parseVlessHeader" \in parsed /\ VlessWellFormed) =>
          /\ vlessResult.error = ""
          /\ vlessResult.destination.port =
                headerBuffer[VlessCommandAt + 2] * 256 + headerBuffer[VlessCommandAt + 3]
          /\ vlessResult.destination.address =
                DeclaredAddress(headerBuffer, VlessCommandAt + 3, 1, 2, 3)
          /\ vlessResult.remainingData =
                SubSeq(headerBuffer,
                       DeclaredAddressEnd(headerBuffer, VlessCommandAt + 3, 1, 2, 3) + 1,
                       Len(headerBuffer))
    /\ ("parseVlessHeader" \in parsed /\ vlessResult.error = "") =>
          /\ getUint8(headerBuffer, VlessCommandAt) = 1
          /\ getUint8(headerBuffer, VlessCommandAt + 3) \in {1, 2, 3}
    /\ ("parseVlessHeader" \in parsed /\ headerBuffer = ExampleVless) =>
          /\ vlessResult.error = ""
          /\ vlessResult.destination = [address |-> ExampleCom, port |-> 443]
          /\ vlessResult.remainingData = Ping

\* the example header has been parsed
C15_Witness ==
    /\ "parseVlessHeader" \in parsed
    /\ headerBuffer = ExampleVless
    /\ VlessWellFormed
    /\ vlessResult.remainingData = Ping

\* the buffer holds a complete Shadowsocks request with an IPv4 or domain address
ShadowsocksWellFormed ==
    /\ Len(headerBuffer) > 0
    /\ getUint8(headerBuffer, 0) \in {1, 3}
    /\ DeclaredAddressEnd(headerBuffer, 0, 1, 3, 4) + 2 <= Len(headerBuffer)

\* C16: parseShadowsocksHeader decodes, for address types 1 (IPv4) and 3 (domain
\* with a 1-byte length), the address and then the big-endian port, and returns
\* exactly the bytes behind the port as payload, without error, whatever the
\* payload's length; [1,8,8,8,8,0,53] gives 8.8.8.8:53 and the type-3 header for
\* google.com:443 followed by "hello" gives the payload "hello".
C16_ShadowsocksDecodes ==
    /\ ("parseShadowsocksHeader" \in parsed /\ ShadowsocksWellFormed) =>
          LET end == DeclaredAddressEnd(headerBuffer, 0, 1, 3, 4) IN
          /\ ssResult.error = ""
          /\ ssResult.destination.address = DeclaredAddress(headerBuffer, 0, 1, 3, 4)
          /\ ssResult.destination.port = headerBuffer[end + 1] * 256 + headerBuffer[end + 2]
          /\ ssResult.remainingData = SubSeq(headerBuffer, end + 3, Len(headerBuffer))
    /\ ("parseShadowsocksHeader" \in parsed /\ headerBuffer = ExampleSsIPv4) =>
          /\ ssResult.error = ""
          /\ ssResult.destination = [address |-> <<56, 46, 56, 46, 56, 46, 56>>, port |-> 53]
          /\ ssResult.remainingData = <<>>
    /\ ("parseShadowsocksHeader" \in parsed /\ headerBuffer = ExampleSsDomain) =>
          /\ ssResult.error = ""
          /\ ssResult.destination = [address |-> GoogleCom, port |-> 443]
          /\ ssResult.remainingData = Hello

\* the google.com example has been parsed and its payload returned
C16_Witness ==
    /\ "parseShadowsocksHeader" \in parsed
    /\ headerBuffer = ExampleSsDomain
    /\ ShadowsocksWellFormed
    /\ ssResult.remainingData = Hello

\* the buffer holds a Trojan request up to and including its port: CR LF at
\* bytes 56-57, command 1 at byte 58, an address type of 1, 3 or 4 at byte 59
TrojanWellFormed ==
    /\ HasCRLF
    /\ Len(headerBuffer) > 59
    /\ getUint8(headerBuffer, 58) = 1
    /\ getUint8(headerBuffer, 59) \in {1, 3, 4}
    /\ DeclaredAddressEnd(headerBuffer, 59, 1, 3, 4) + 2 <= Len(headerBuffer)

\* C17: for a buffer with CR LF at bytes 56-57 and command 1 at byte 58,
\* parseTrojanHeader decodes the address from the type at byte 59, takes the
\* big-endian port from the two bytes behind the address, skips the two bytes
\* behind the port and returns exactly the bytes that remain as payload.
C17_TrojanDecodes ==
    ("parseTrojanHeader" \in parsed /\ TrojanWellFormed) =>
        LET end == DeclaredAddressEnd(headerBuffer, 59, 1, 3, 4) IN
        /\ trojanResult.error = ""
        /\ trojanResult.destination.address = DeclaredAddress(headerBuffer, 59, 1, 3, 4)
        /\ trojanResult.destination.port = headerBuffer[end + 1] * 256 + headerBuffer[end + 2]
        /\ trojanResult.remainingData =
              IF Len(headerBuffer) > end + 4
              THEN SubSeq(headerBuffer, end + 5, Len(headerBuffer))
              ELSE <<>>

\* a Trojan request for a domain, followed by a payload, has been parsed
C17_Witness ==
    /\ "parseTrojanHeader" \in parsed
    /\ TrojanWellFormed
    /\ getUint8(headerBuffer, 59) = 3
    /\ trojanResult.destination.port = 443
    /\ trojanResult.remainingData = Ping

\* C18: each parser refuses every address type outside its own set: parseVlessHeader
\* any type but 1, 2, 3, parseTrojanHeader and parseShadowsocksHeader any type but
\* 1, 3, 4; the numberings differ: type 2 is a domain for VLESS and an error for
\* the other two.
C18_AddressTypesPerProtocol ==
    /\ ( /\ "parseVlessHeader" \in parsed
         /\ Len(headerBuffer) > 17 /\ Len(headerBuffer) > VlessCommandAt + 3
         /\ getUint8(headerBuffer, VlessCommandAt + 3) \notin {1, 2, 3} ) =>
          vlessResult.error # "" /\ vlessResult.destination = NoDestination
    /\ ( /\ "parseTrojanHeader" \in parsed
         /\ Len(headerBuffer) > 59
         /\ getUint8(headerBuffer, 59) \notin {1, 3, 4} ) =>
          trojanResult.error # "" /\ trojanResult.destination = NoDestination
    /\ ( /\ "parseShadowsocksHeader" \in parsed
         /\ Len(headerBuffer) > 0
         /\ getUint8(headerBuffer, 0) \notin {1, 3, 4} ) =>
          ssResult.error # "" /\ ssResult.destination = NoDestination
    /\ ( /\ "parseVlessHeader" \in parsed
         /\ VlessWellFormed
         /\ getUint8(headerBuffer, VlessCommandAt + 3) = 2 ) =>
          /\ vlessResult.error = ""
          /\ vlessResult.destination.address =
                SubSeq(headerBuffer, VlessCommandAt + 6,
                       VlessCommandAt + 5 + getUint8(headerBuffer, VlessCommandAt + 4))

\* a Trojan request, well-formed but for address type 2, has been refused
C18_Witness ==
    /\ "parseTrojanHeader" \in parsed
    /\ HasCRLF
    /\ Len(headerBuffer) > 66
    /\ getUint8(headerBuffer, 58) = 1
    /\ getUint8(headerBuffer, 59) = 2
    /\ trojanResult.error = "Invalid Trojan address type"

\* ---- the websocketHandler session again (Spec)

\* C19 (as claimed): once the primary remote socket has delivered at least one
\* chunk and then ended normally, and no handler of the session has anything
\* left to do, the client WebSocket is no longer open.
C19_RemoteEndClosesClient ==
    ( /\ pump[1] = "done"
      /\ hasIncomingData[1]
      /\ ~pumpRejected[1]
      /\ sockState[1] = "closed"
      /\ Quiet ) => readyState # WS_READY_STATE_OPEN

\* the inbound side of the session is over: the pipe from the WebSocket stream
\* into the sink has closed or failed, and no connectAndWrite or remoteSocketToWS
\* call is about to run a step of its own
InboundTerminated ==
    /\ sink \in {"closed", "errored"}
    /\ \A s \in Sockets : cw[s] # "writing" /\ pump[s] # "settled"

\* C20 (as claimed): once the inbound WebSocket has closed, failed or had its
\* stream cancelled, no remote socket the session connected and wrote to is
\* still open.
C20_InboundEndClosesRemote ==
    InboundTerminated => \A s \in Sockets : ~(cw[s] = "ok" /\ sockState[s] = "open")

\* C21: an early-data field that does not decode is fatal: the inbound stream is
\* errored, no chunk is sniffed and no outbound connection is opened; a field
\* that decodes is the first chunk the sink gets, ahead of every message; an
\* absent field adds no chunk.
C21_EarlyData ==
    /\ earlyDataHeader = "invalid" =>
          /\ streamState = "errored"
          /\ queue = <<>> /\ cur = -1
          /\ sink \in {"idle", "errored"}
          /\ sniffed = <<>>
          /\ protocolHeader = NoHeader
          /\ connects = 0 /\ dnsConnects = 0
    /\ earlyDataHeader = "none" =>
          /\ cur # 0
          /\ \A i \in 1..Len(queue) : queue[i] # 0
          /\ \A i \in 1..Len(sniffed) : sniffed[i] # 0
    /\ (earlyDataHeader = "valid" /\ sniffed # <<>>) => sniffed[1] = 0
    /\ \A i \in 1..Len(queue) : queue[i] = 0 => i = 1

\* the decoded early data is being sniffed while a message waits behind it
C21_Witness ==
    /\ earlyDataHeader = "valid"
    /\ sink = "sniffing"
    /\ cur = 0
    /\ queue = <<1>>

\* C22: closing the inbound transport is idempotent: safeCloseWebSocket calls
\* socket.close() only while the socket is OPEN or CLOSING, a call in any other
\* readyState changes nothing, and cancel() of the inbound stream goes on to its
\* close action at most once.
C22_CloseIsIdempotent ==
    /\ [](cancelCloses <= 1)
    /\ [][closeCalls' # closeCalls =>
            /\ closeCalls' = closeCalls + 1
            /\ readyState \in {WS_READY_STATE_OPEN, WS_READY_STATE_CLOSING}]_vars
    /\ [][readyState \notin {WS_READY_STATE_OPEN, WS_READY_STATE_CLOSING} =>
            readyState' = readyState]_vars
    /\ [][cancelCloses' # cancelCloses => ~readableStreamCancel /\ readableStreamCancel']_vars

\* safeCloseWebSocket has been called by the close listener, by cancel() and by
\* the catch of a failed remote pipe, and the WebSocket is CLOSED
C22_Witness ==
    /\ readyState = 3
    /\ cancelCloses = 1
    /\ closeCalls >= 2
    /\ \E s \in Sockets : pumpRejected[s]

\* C23 (as claimed): an error reaches the client only as a close of its
\* transport with a reason: no error text is sent to it as a message, and once
\* the first message's handler has ended on a parse or connect error the
\* WebSocket has been closed with a code and a non-empty reason.
C23_ErrorsSurfaceOnlyAsClose ==
    /\ \A i \in 1..Len(clientGot) : clientGot[i] # "text"
    /\ (worker = "single-file" /\ hpc = "done" /\ (headerResult.error # "" \/ tcpState = "none")) =>
          closeCode # 0 /\ closeReason # ""

C26_HeaderConsumedOnce ==
    /\ Len(sniffed) <= 1
    /\ (worker = "single-file" /\ connectionEstablished) =>
          headerResult = parseRequestHeader(firstChunk)

\* C27 (as claimed): the phases of a session of websocketHandler advance in
\* the order INIT, SNIFFING, CONNECTING or DNS_FORWARDING, STREAMING, and none
\* is entered twice: a chunk is handed to the sniffer only while nothing has
\* been sniffed or connected yet, connect() is called for the destination
\* only while no connection has been made, a resolver connection is opened
\* only while none has been, and a pump starts only after a connection.
C27_PhasesAdvanceOnce ==
    [][ worker = "handlers" =>
          /\ (Len(sniffed') > Len(sniffed)) =>
                (sniffed = <<>> /\ connects = 0 /\ dnsConnects = 0)
          /\ (connects' > connects) =>
                (sniffed # <<>> /\ connects = 0 /\ dnsConnects = 0)
          /\ (dnsConnects' > dnsConnects) =>
                (sniffed # <<>> /\ connects = 0 /\ dnsConnects = 0)
          /\ \A s \in DOMAIN pump :
                (pump[s] = "none" /\ pump'[s] = "piping") => connects > 0 ]_vars

\* C28 (as claimed): CLOSED is terminal: once the client transport of a
\* session of websocketHandler is no longer open, no further outbound
\* connection is opened (to the destination, the fallback or the resolver)
\* and no further message is sent to the client.
C28_ClosedIsTerminal ==
    [][ (worker = "handlers" /\ readyState # WS_READY_STATE_OPEN) =>
          /\ connects' = connects
          /\ dnsConnects' = dnsConnects
          /\ sent' = sent ]_vars

\* C29 (as claimed): the retry connects to the Fallback Destination, which with
\* no proxyIP configured is the address and the port of the header, and the
\* first thing written on the retry connection is the rawClientData that was
\* written first on the primary connection.
C29_RetryResendsToFallback ==
    (worker = "handlers" /\ dialed[2] # NoDial) =>
        /\ proxyIP = <<>> =>
              /\ dialed[2].hostname = protocolHeader.addressRemote
              /\ dialed[2].port = protocolHeader.portRemote
        /\ written[1] # <<>>
        /\ written[2] # <<>> => written[2][1] = written[1][1]

\* C29 witness: the retry has connected for a header that names the resolver
\* port over TCP, has written its first chunk, and a later chunk has followed
\* it onto the retry connection.
C29_Witness ==
    /\ worker = "handlers"
    /\ retryCalls = 1
    /\ dialed[2] # NoDial
    /\ dialed[2].port = DNS_PORT
    /\ Len(written[2]) >= 2

\* C30 (as claimed): at most one remote TCP socket of a session of
\* websocketHandler is open at any time: the primary and the retry socket are
\* never open together, the retry socket is opened only once the primary one
\* has closed, no destination socket is open beside a resolver connection, and
\* a resolver connection is opened only when the previous one has finished.
C30_OneRemoteSocketOpen ==
    /\ [](worker = "handlers" =>
            /\ Cardinality({s \in Sockets : sockState[s] = "open"}) <= 1
            /\ dnsPc # "none" => \A s \in Sockets : sockState[s] # "open")
    /\ [][ worker = "handlers" =>
            /\ (sockState[2] # "open" /\ sockState'[2] = "open") => sockState[1] = "closed"
            /\ (dnsConnects' > dnsConnects) => dnsPc = "none" ]_vars

\* C30 witness: the primary socket closed without data, and the retry socket
\* is open and piping.
C30_Witness ==
    /\ worker = "handlers"
    /\ sockState[1] = "closed"
    /\ sockState[2] = "open"
    /\ pump[2] = "piping"
    /\ dnsConnects = 0

\* C31: after any sequence of addLog calls the log buffer holds at most
\* MAX_LOG_ENTRIES entries (50 in logging.js, 20 in part_004), and they are
\* the most recently added ones in insertion order: the entries of the last
\* calls, the oldest of them first.
C31_LogBufferBounded ==
    worker \in LogWorkers =>
        /\ Len(logEvents) <= MaxLogEntries(worker)
        /\ worker = "logging" => Len(logEvents) <= 50
        /\ worker = "single-file logging" => Len(logEvents) <= 20
        /\ Len(logEvents) = Min(trace + 1, MaxLogEntries(worker))
        /\ \A i \in 1..Len(logEvents) : logEvents[i] = trace - Len(logEvents) + i

\* C31 witness: the buffer of logging.js is full and its first entries,
\* "Worker started." among them, have been evicted.
C31_Witness ==
    /\ worker = "logging"
    /\ Len(logEvents) = MAX_LOG_ENTRIES
    /\ logEvents[1] > 1
    /\ logEvents[Len(logEvents)] = trace

\* C32: in handleWebSocketStream the bytes behind the header of the first
\* chunk are written to the remote socket before any later message, later
\* messages are written in arrival order, and a message that arrives while
\* the outbound connection is open is written, none being dropped while the
\* connection is set up.
C32_PayloadFirstThenInOrder ==
    /\ [](worker = "single-file" =>
            /\ \A i, j \in 1..Len(remoteGot) : i < j => remoteGot[i] < remoteGot[j]
            /\ (remoteSocketWriter /\ Len(headerResult.remainingData) > 0 /\ remoteGot # <<>>)
                  => remoteGot[1] = 0)
    /\ [][ (/\ worker = "single-file"
            /\ connectionEstablished
            /\ streamMsgs' > streamMsgs
            /\ tcpState = "open")
           => remoteGot' = Append(remoteGot, streamMsgs') ]_vars

\* C32 witness: the bytes behind the header and then the second message have
\* been written to the remote socket.
C32_Witness ==
    /\ worker = "single-file"
    /\ remoteGot = <<0, 2>>
    /\ Len(headerResult.remainingData) > 0

\* C33: when the upgrade request's path gave a destination, the outbound
\* connection of handleWebSocketStream is opened to it and not to the one
\* decoded from the header; the first chunk must still parse: when it does
\* not, the session is closed with code 1002 and no connection is opened.
C33_PathDestinationWins ==
    (worker = "single-file" /\ pathDestination # NoDestination /\ connectionEstablished) =>
        /\ tcpConnects > 0 =>
              /\ finalDestination = pathDestination
              /\ headerResult.error = ""
        /\ headerResult.error # "" =>
              /\ closeCode = 1002
              /\ tcpConnects = 0
              /\ finalDestination = NoDestination

\* C33 witness: the header names a destination of its own, and the connection
\* was opened to the one of the path.
C33_Witness ==
    /\ worker = "single-file"
    /\ pathDestination # NoDestination
    /\ headerResult.error = ""
    /\ headerResult.destination # NoDestination
    /\ headerResult.destination # pathDestination
    /\ tcpConnects = 1
    /\ tcpState = "open"
    /\ finalDestination = pathDestination

\* C34: within one cycle of the job-queue coordinator, whatever the
\* interleaving of getJob calls, the proxies are handed out in list order and
\* none twice: the k-th job handed out is the k-th line of the list; getJob
\* hands out a job only while a cycle is running and a line is left, and
\* returns null otherwise.
C34_JobsHandedOutOnceInOrder ==
    /\ [](worker = "job-queue" =>
            /\ \A k \in 1..Len(trace.handed) : trace.handed[k] = k - 1
            /\ storage.proxies # <<>> => Len(trace.handed) <= Len(storage.proxies))
    /\ [][ worker = "job-queue" =>
            \A w \in Scheds :
               /\ (calls.sched[w].pc = "getJob" /\ calls'.sched[w].pc = "put") =>
                     /\ storage.isRunning
                     /\ OrZero(storage.currentIndex) < Len(storage.proxies)
                     /\ calls'.sched[w].job = Len(trace.handed)
               /\ (calls.sched[w].pc = "getJob" /\ calls'.sched[w].pc = "idle") =>
                     \/ ~storage.isRunning
                     \/ OrZero(storage.currentIndex) >= Len(storage.proxies) ]_vars

\* C34 witness: two scheduled() invocations run at once, each with a job of
\* its own, and the list has been handed out in order.
C34_Witness ==
    /\ worker = "job-queue"
    /\ trace.handed = <<0, 1>>
    /\ \A w \in Scheds : calls.sched[w].pc \in {"check", "enrich"}
    /\ calls.sched[1].job # calls.sched[2].job

C36_OneCycleAtATime ==
    /\ [](worker = "job-queue" =>
            Cardinality({c \in Starters : calls.start[c] = "fetching"}) <= 1)
    /\ [][ worker = "job-queue" =>
            \A c \in Starters :
               /\ (trace'.starts > trace.starts /\ storage.isRunning
                      /\ calls.start[c] = "idle" /\ trace'.status[c] # trace.status[c]) =>
                     (trace'.status[c] = 409 /\ storage' = storage)
               /\ (calls.start[c] = "fetching" /\ calls'.start[c] = "idle"
                      /\ trace'.status[c] # 202) =>
                     storage' = EmptyStorage ]_vars

\* C37 (as claimed): every started cycle of the job-queue health checker
\* completes: while scheduled() keeps firing, a cycle whose list has been
\* stored leads to every line handed out, every result recorded, the report
\* stored and isRunning unset again.
C37_CycleCompletes ==
    (worker = "job-queue" /\ storage.isRunning /\ storage.proxies # <<>>)
        ~> (~storage.isRunning /\ trace.reports = trace.cycles)

\* C38 (as claimed): a new cycle of the alarm-driven coordinator clears the
\* state of the previous one: while the list of a cycle is stored, the stored
\* currentIndex, statistics and alive_proxies were written by fetch() or by an
\* alarm batch of that same cycle, and every stored alive proxy is a line of
\* that list, also when a batch of the previous cycle was in progress.
C38_NewCycleClearsState ==
    (worker = "alarm" /\ storage.proxies # <<>>) =>
        /\ trace.storedBy = CycleOf(storage.proxies)
        /\ \A k \in 1..Len(storage.alive_proxies) :
              storage.alive_proxies[k].cycle = CycleOf(storage.proxies)
        /\ storage.statistics.total_proxies = Len(storage.proxies)

\* C39 (as claimed): after every alarm batch of the alarm-driven coordinator
\* that found a stored list, the stored state satisfies: currentIndex <= number of stored proxies, currentIndex
\* advanced by at most 10 in the batch, statistics.total_checked = currentIndex
\* <= total_proxies, and total_alive = length of alive_proxies <= total_checked.
C39_BatchKeepsCounts ==
    [][ (/\ worker = "alarm"
         /\ storage.proxies # <<>>
         /\ calls.alarm.pc # "report"
         /\ calls'.alarm.pc = "report") =>
          /\ storage'.currentIndex <= Len(storage'.proxies)
          /\ storage'.currentIndex <= OrZero(storage.currentIndex) + BATCH_SIZE_006
          /\ storage'.statistics.total_checked = storage'.currentIndex
          /\ storage'.currentIndex <= storage'.statistics.total_proxies
          /\ storage'.statistics.total_alive = Len(storage'.alive_proxies)
          /\ storage'.statistics.total_alive <= storage'.statistics.total_checked ]_vars

\* C40 (as claimed): the queue update of the cron-driven checker is atomic: each
\* proxy removed from proxies_to_check is processed by at most one cron run, a
\* run whose atomic commit fails does not process the proxy it tried to take,
\* and every processed proxy increments total_checked of health_report exactly
\* once.
C40_QueueUpdateAtomic ==
    [][ worker = "cron" =>
          /\ \A p \in BagToSet(trace'.processed) :
                /\ CopiesIn(p, trace'.processed) = 1
                /\ BagIn(p, trace'.taken)
          /\ (calls.cron.pc = "commit" /\ kv.versionstamp # calls.cron.versionstamp) =>
                (calls'.cron.pc = "commit" \/ trace'.processed = trace.processed)
          /\ trace'.processed # trace.processed =>
                kv'.health_report.total_checked = OrZero(kv.health_report.total_checked) + 1
    ]_vars

====
